---------------------------- MODULE Spec2Model ----------------------------
(***************************************************************************)
(* A model of FF_Sim7000 (src/FF_Sim7000.h): the asynchronous AT command   *)
(* engine that drives a SIM7000 modem to send and receive SMS in PDU mode. *)
(*                                                                         *)
(* The object's fields, the file-scope statics (stepPtr, stepRepeatCount,  *)
(* stepMaxRepeatcount), the serial port (Sim7000Serial) and the PDU codec  *)
(* (smsPdu) are the fields of one record, sim, because every routine of    *)
(* the class is a function from that state to that state and routines call *)
(* each other (doLoop -> nextStepCb -> sendCommand ...).                   *)
(*                                                                         *)
(* Modem lines and AT commands are strings of characters; SMS texts are    *)
(* run-length encoded sequences of UTF-8 characters (byte values 0..255).  *)
(***************************************************************************)
EXTENDS Integers, Sequences, FiniteSets, TLC

VARIABLES sim, sends, begins, noise, late

vars == <<sim, sends, begins, noise, late>>

(***************************************************************************)
(* Program constants (#define lines of the source)                         *)
(***************************************************************************)
SIM7000_CMD_TIMEOUT == 4000
MAX_ANSWER == 500
DEFAULT_ANSWER == "OK"
CREG_MSG == "+CREG: "
CREG_QUERY == "+CREG?"
SMS_INDICATOR == "+CMT: "
CSCA_INDICATOR == "+CSCA:"

SIM7000_OK == 0
SIM7000_RUNNING == 1
SIM7000_TIMEOUT == 1
SIM7000_TOO_LONG == 2
SIM7000_BAD_ANSWER == 3
SIM7000_CM_ERROR == 4
SIM7000_NEED_INIT == 5

SIM7000_IDLE == 0
SIM7000_SEND == 1
SIM7000_RECV == 2
SIM7000_STARTING == 3
SIM7000_NOT_CONNECTED == 4

STEP_SIZE == 14

\* widths of the integer fields: uint8_t and uint16_t / unsigned short
U8 == 256
U16 == 65536

(***************************************************************************)
(* C string helpers                                                        *)
(***************************************************************************)
\* strstr(haystack, needle) != NULL
strstr(h, n) ==
    \E i \in 1..(Len(h) - Len(n) + 1) : SubSeq(h, i, i + Len(n) - 1) = n

\* index (1-based) of the first occurrence of needle, 0 when absent
strpos(h, n) ==
    LET hits == {i \in 1..(Len(h) - Len(n) + 1) : SubSeq(h, i, i + Len(n) - 1) = n}
    IN  IF hits = {} THEN 0 ELSE CHOOSE i \in hits : \A j \in hits : i <= j

Min(a, b) == IF a <= b THEN a ELSE b

(***************************************************************************)
(* SMS text: UTF-8 to GSM-7 / UCS-2 accounting                             *)
(***************************************************************************)
\* FF_Sim7000::getGsm7EquivalentLen : units of one UTF-8 character in GSM-7,
\* 0 when the character is outside the GSM-7 table
getGsm7EquivalentLen(c1, c2, c3) ==
    IF \/ c1 = 10
       \/ c1 = 13
       \/ (c1 >= 32 /\ c1 <= 90)
       \/ c1 = 95
       \/ (c1 >= 97 /\ c1 <= 122)
    THEN 1
    ELSE IF c1 = 194 /\ ( \/ c2 = 161
                          \/ (c2 >= 163 /\ c2 <= 165)
                          \/ c2 = 167
                          \/ c2 = 191 )
    THEN 1
    ELSE IF c1 = 195 /\ ( \/ (c2 >= 132 /\ c2 <= 135)
                          \/ c2 = 137
                          \/ c2 = 145
                          \/ c2 = 150
                          \/ c2 = 152
                          \/ c2 = 156
                          \/ (c2 >= 159 /\ c2 <= 160)
                          \/ (c2 >= 164 /\ c2 <= 166)
                          \/ (c2 >= 168 /\ c2 <= 169)
                          \/ c2 = 172
                          \/ (c2 >= 177 /\ c2 <= 178)
                          \/ c2 = 182
                          \/ (c2 >= 184 /\ c2 <= 185)
                          \/ c2 = 188 )
    THEN 1
    ELSE IF \/ c1 = 12
            \/ (c1 >= 91 /\ c1 <= 94)
            \/ (c1 >= 123 /\ c1 <= 126)
    THEN 2
    ELSE IF c1 = 226 /\ c2 = 130 /\ c3 = 172
    THEN 2
    ELSE 0

\* A text is kept run-length encoded: a sequence of runs [ch, n], n copies
\* of the UTF-8 byte sequence ch.  strlen(text):
RECURSIVE TextLen(_)
TextLen(text) ==
    IF text = <<>> THEN 0
    ELSE Len(text[1].ch) * text[1].n + TextLen(Tail(text))

\* text[i] of the C string (0-based index i), 0 at and past the terminator
RECURSIVE ByteAt(_, _)
ByteAt(text, i) ==
    IF text = <<>> THEN 0
    ELSE LET run == Len(text[1].ch) * text[1].n
         IN  IF i < run
             THEN text[1].ch[(i % Len(text[1].ch)) + 1]
             ELSE ByteAt(Tail(text), i - run)

\* the value lengthToAdd takes in the scan loop of sendSMS at index i:
\* c1 = text[i], c2 and c3 the next two bytes (0 past the end)
LengthToAdd(text, utf8Length, i) ==
    getGsm7EquivalentLen(
        ByteAt(text, i),
        IF i + 1 < utf8Length THEN ByteAt(text, i + 1) ELSE 0,
        IF i + 2 < utf8Length THEN ByteAt(text, i + 2) ELSE 0)

\* sum of lengthToAdd over the indexes lo..hi (balanced, to keep the
\* evaluation depth logarithmic in the text length)
RECURSIVE SumLengths(_, _, _, _)
SumLengths(text, utf8Length, lo, hi) ==
    IF lo > hi THEN 0
    ELSE IF lo = hi THEN LengthToAdd(text, utf8Length, lo)
    ELSE LET mid == (lo + hi) \div 2
         IN  SumLengths(text, utf8Length, lo, mid)
             + SumLengths(text, utf8Length, mid + 1, hi)

\* a scan loop that leaves the loop on the first byte whose lengthToAdd is 0
\* and keeps the units counted so far
Gsm7ScanKeepsPrefix(text) ==
    LET utf8Length == TextLen(text) % U16
        bad == {i \in 0..(utf8Length - 1) : LengthToAdd(text, utf8Length, i) = 0}
        stop == IF bad = {} THEN utf8Length
                ELSE CHOOSE i \in bad : \A j \in bad : i <= j
    IN  SumLengths(text, utf8Length, 0, stop - 1) % U16

\* the scan loop of sendSMS: i advances by one byte per iteration; the loop
\* adds lengthToAdd to the uint16_t gsm7Length, and on the first byte whose
\* lengthToAdd is 0 sets gsm7Length to 0 and leaves the loop
Gsm7Scan(text) ==
    LET utf8Length == TextLen(text) % U16
    IN  IF \E i \in 0..(utf8Length - 1) : LengthToAdd(text, utf8Length, i) = 0
        THEN 0
        ELSE SumLengths(text, utf8Length, 0, utf8Length - 1) % U16

\* FF_Sim7000::ucs2MessageLength : twice the number of bytes that are not
\* UTF-8 continuation bytes ((b & 0xc0) != 0x80), in a uint16_t
ucs2MessageLength(text) ==
    (Cardinality({i \in 0..(TextLen(text) - 1) : (ByteAt(text, i) \div 64) # 2}) * 2) % U16

\* String::substring(left, right) of the Arduino core, as the pair of
\* offsets <<from, to>> it returns the bytes of (from = to: empty string)
Substring(len, left, right) ==
    IF left >= len THEN <<len, len>> ELSE <<left, Min(right, len)>>

\* chunk planning of sendSMS for a GSM-7 message of gsm7Length units:
\* <<smsMsgCount, chunk size or 0 when smsChunkSize is left unchanged>>
PlanGsm7(gsm7Length) ==
    IF gsm7Length > 160
    THEN <<((gsm7Length + 151) \div 152) % U8, 152>>
    ELSE <<0, 0>>

\* chunk planning of sendSMS for an UCS-2 message of ucs2Length units
PlanUcs2(ucs2Length) ==
    IF ucs2Length > 70
    THEN <<((ucs2Length + 66) \div 67) % U8, 67>>
    ELSE <<0, 0>>

(***************************************************************************)
(* The init table (initSteps) and the power table (powerStepDuration)      *)
(***************************************************************************)
\* initSteps[stepPtr] (0-based stepPtr): routine is "" for a plain command
initSteps ==
    << [routine |-> "", command |-> "AT",                waitFor |-> "", timeout |-> 1000,  repeat |-> 9],
       [routine |-> "", command |-> "AT+IPR=115200",     waitFor |-> "", timeout |-> SIM7000_CMD_TIMEOUT, repeat |-> 0],
       [routine |-> "", command |-> "ATE0",              waitFor |-> "", timeout |-> SIM7000_CMD_TIMEOUT, repeat |-> 0],
       [routine |-> "", command |-> "AT+CMEE=2",         waitFor |-> "", timeout |-> SIM7000_CMD_TIMEOUT, repeat |-> 0],
       [routine |-> "", command |-> "AT+CMGF=0",         waitFor |-> "", timeout |-> SIM7000_CMD_TIMEOUT, repeat |-> 0],
       [routine |-> "", command |-> "AT+CNMP=51",        waitFor |-> "", timeout |-> SIM7000_CMD_TIMEOUT, repeat |-> 0],
       [routine |-> "", command |-> "AT+CREG=2",         waitFor |-> "", timeout |-> SIM7000_CMD_TIMEOUT, repeat |-> 0],
       [routine |-> "", command |-> "AT+CSDH=1",         waitFor |-> "", timeout |-> SIM7000_CMD_TIMEOUT, repeat |-> 0],
       [routine |-> "", command |-> "AT+CMGD=1,4",       waitFor |-> "", timeout |-> 10000, repeat |-> 0],
       [routine |-> "", command |-> "AT+CNMI=2,2,0,2,0", waitFor |-> "", timeout |-> SIM7000_CMD_TIMEOUT, repeat |-> 0],
       [routine |-> "", command |-> "AT+CREG?",          waitFor |-> "", timeout |-> SIM7000_CMD_TIMEOUT, repeat |-> 0],
       [routine |-> "", command |-> "AT+CLTS=1",         waitFor |-> "", timeout |-> SIM7000_CMD_TIMEOUT, repeat |-> 0],
       [routine |-> "", command |-> "AT+CSCA?",          waitFor |-> CSCA_INDICATOR, timeout |-> 10000, repeat |-> 0],
       [routine |-> "gotSca", command |-> "",            waitFor |-> "", timeout |-> SIM7000_CMD_TIMEOUT, repeat |-> 0] >>

\* powerStepDuration[0..4] as the constructor sets it (1-based here)
PowerTable == <<1500, 2000, 1500, 10000, 0>>

\* what the codec returns for a PDU it accepts (its length in bytes goes
\* into the AT+CMGS command)
CMGS_COMMAND == "AT+CMGS=42"
DELETE_COMMAND == "AT+CMGD=1,2"
\* what is written to the port after the '>' prompt, and the 0x1a byte
PDU_PAYLOAD == "<pdu>"
CTRL_Z == "<0x1a>"

(***************************************************************************)
(* The state after the constructor FF_Sim7000::FF_Sim7000()                *)
(***************************************************************************)
Constructed ==
    [ restartNeeded |-> FALSE,
      gsmStatus |-> SIM7000_NEED_INIT,
      restartReason |-> SIM7000_NEED_INIT,
      smsReady |-> FALSE,
      inReceive |-> FALSE,
      gsmIdle |-> SIM7000_STARTING,
      firstInitDone |-> FALSE,
      modemSpeaking |-> FALSE,
      nextLineIsSmsMessage |-> FALSE,
      ignoreErrors |-> FALSE,
      nextStepCb |-> "NULL",
      gsmTimeout |-> 0,
      lastAnswer |-> "",
      expectedAnswer |-> "",
      lastCommand |-> "",
      smsMsgId |-> 0,
      powerStepDuration |-> PowerTable,
      \* fields the constructor leaves unset; each is written before it is read
      modemPowerPin |-> -1,
      powerStep |-> 0,
      gsm7Length |-> 0,
      smsMsgIndex |-> 0,
      smsMsgCount |-> 0,
      smsChunkSize |-> 0,
      lastSentMessage |-> <<>>,
      \* powerStepStartTime != 0, and millis() - powerStepStartTime
      inPower |-> FALSE,
      powerElapsed |-> 0,
      \* millis() - startTime, followed up to gsmTimeout
      elapsed |-> 0,
      \* file-scope statics
      stepPtr |-> 0,
      stepRepeatCount |-> 0,
      stepMaxRepeatcount |-> 0,
      \* Sim7000Serial: bytes waiting to be read; the last thing written,
      \* how many times in a row it was written, the commands the modem has
      \* yet to answer, PDU payloads written since the last sendSMS, and
      \* whether a byte was read since the pending command was armed and
      \* before its deadline
      rx |-> "",
      txLast |-> "",
      txRepeat |-> 0,
      owed |-> <<>>,
      payloads |-> 0,
      heard |-> FALSE,
      \* smsPdu: the arguments of the last encodePDU call (the chunk as the
      \* offsets of the substring handed over), the number of calls since
      \* the last sendSMS, and whether the last call returned a length
      pduFrom |-> 0,
      pduTo |-> 0,
      pduIndex |-> 0,
      pduCalls |-> 0,
      pduAccepted |-> TRUE,
      \* the counter and the records of the messages received, and the
      \* callbacks the driver has registered (NULL is FALSE)
      smsForwardedCount |-> 0,
      lastReceivedNumber |-> "",
      lastReceivedDate |-> "",
      lastReceivedMessage |-> "",
      readSmsCb |-> FALSE,
      sendSmsCb |-> FALSE,
      recvLineCb |-> FALSE,
      \* what the driver's callbacks have seen: the number of calls of each
      \* and the arguments of the last call of the receive callback
      readCbCalls |-> 0,
      readCbArgs |-> <<>>,
      sendCbCalls |-> 0,
      lineCbCalls |-> 0,
      \* smsPdu: the number given to the last call of setSCAnumber
      scaNumber |-> "",
      \* the text given to the last call of sendAT
      atCommand |-> "",
      \* the receive notices doLoop has taken and the delete commands written
      notices |-> 0,
      deletes |-> 0,
      \* the count of successful restarts
      restartCount |-> 0,
      \* whether millis() reads 0 in the call under way
      clockZero |-> FALSE,
      \* the power pin: the level last written and the mode last set, the
      \* calls of open() so far, and whether doLoop has read a byte since the
      \* last begin()
      pinLevel |-> "unset",
      pinMode |-> "unset",
      opens |-> 0,
      bytesRead |-> FALSE,
      \* the last trace message of the latest call of a public routine
      trace |-> "" ]

(***************************************************************************)
(* The private routines                                                    *)
(***************************************************************************)
\* Sim7000Serial.write(item); the modem answers what ends a command (a
\* PDU is answered once the 0x1a byte follows it)
SerialWrite(s, item) ==
    [s EXCEPT !.txLast = item,
              !.txRepeat = IF s.txLast = item THEN s.txRepeat + 1 ELSE 1,
              !.owed = IF item = PDU_PAYLOAD THEN @ ELSE Append(@, item)]

\* resetLastAnswer leaving the buffer as it is
resetLastAnswerKeepsBuffer(s) == s

\* FF_Sim7000::resetLastAnswer
resetLastAnswer(s) == [s EXCEPT !.lastAnswer = ""]

\* setIdle without the clearing of inReceive
setIdleKeepsPending(s) ==
    [s EXCEPT !.gsmIdle = SIM7000_IDLE, !.lastAnswer = ""]

\* setIdle that also ends the wait for the payload line
setIdleEndsPayloadWait(s) ==
    [s EXCEPT !.gsmIdle = SIM7000_IDLE, !.inReceive = FALSE, !.lastAnswer = "",
              !.nextLineIsSmsMessage = FALSE]

\* FF_Sim7000::setIdle
setIdle(s) ==
    [s EXCEPT !.gsmIdle = SIM7000_IDLE, !.inReceive = FALSE, !.lastAnswer = ""]

\* FF_Sim7000::sendCommand(const char *command, nextStep, resp, cdeTimeout, repeat)
sendCommand(s, command, nextStep, resp, cdeTimeout, repeat) ==
    LET s1 == [s EXCEPT !.gsmTimeout = cdeTimeout,
                        !.gsmStatus = SIM7000_RUNNING,
                        !.nextStepCb = nextStep,
                        !.stepMaxRepeatcount = repeat,
                        !.expectedAnswer = resp]
        s2 == IF command # ""
              THEN SerialWrite(
                     [s1 EXCEPT !.stepRepeatCount =
                                    IF s1.lastCommand # command THEN 0 ELSE @,
                                !.lastCommand = command,
                                !.lastAnswer = ""],
                     command)
              ELSE s1
    IN  [s2 EXCEPT !.elapsed = 0,
                   !.heard = FALSE,
                   !.inReceive = TRUE,
                   !.nextLineIsSmsMessage = FALSE]

\* FF_Sim7000::sendCommand(const uint8_t command, nextStep, resp, cdeTimeout)
sendCommandByte(s, command, nextStep, resp, cdeTimeout) ==
    LET s1 == [s EXCEPT !.gsmTimeout = cdeTimeout,
                        !.gsmStatus = SIM7000_RUNNING,
                        !.nextStepCb = nextStep,
                        !.expectedAnswer = resp,
                        !.lastAnswer = ""]
    IN  [SerialWrite(s1, command) EXCEPT !.elapsed = 0,
                                         !.heard = FALSE,
                                         !.inReceive = TRUE]

\* FF_Sim7000::sendOneSmsChunk; the text is lastSentMessage[from+1 .. to],
\* encodeOk is whether smsPdu.encodePDU returns a length (not a negative code)
sendOneSmsChunk(s, encodeOk, from, to, msgId, msgCount, msgIndex) ==
    LET s1 == [s EXCEPT !.pduFrom = from, !.pduTo = to, !.pduIndex = msgIndex,
                        !.pduCalls = @ + 1, !.pduAccepted = encodeOk]
    IN  IF ~encodeOk
        THEN s1
        ELSE sendCommand([s1 EXCEPT !.gsmIdle = SIM7000_SEND],
                         CMGS_COMMAND, "sendSMStext", ">", 10000, 0)

\* FF_Sim7000::sendSMStext
sendSMStext(s) ==
    sendCommandByte(
        [SerialWrite(s, PDU_PAYLOAD) EXCEPT !.payloads = @ + 1],
        CTRL_Z, "sendNextSmsChunk", "+CMGS:", 60000)

\* sendNextSmsChunk with <= in place of < in the test of the chunk index
sendNextSmsChunkOneMore(s, encodeOk) ==
    IF s.smsMsgCount # 0 /\ s.smsMsgIndex <= s.smsMsgCount
    THEN LET startPos == (s.smsMsgIndex * s.smsChunkSize) % U16
             sub == Substring(TextLen(s.lastSentMessage), startPos, startPos + s.smsChunkSize)
             s1 == [s EXCEPT !.smsMsgIndex = (@ + 1) % U8]
         IN  sendOneSmsChunk(s1, encodeOk, sub[1], sub[2],
                             s1.smsMsgId, s1.smsMsgCount, s1.smsMsgIndex)
    ELSE setIdle(s)

\* FF_Sim7000::sendNextSmsChunk
sendNextSmsChunk(s, encodeOk) ==
    IF s.smsMsgCount # 0 /\ s.smsMsgIndex < s.smsMsgCount
    THEN LET startPos == (s.smsMsgIndex * s.smsChunkSize) % U16
             sub == Substring(TextLen(s.lastSentMessage), startPos, startPos + s.smsChunkSize)
             s1 == [s EXCEPT !.smsMsgIndex = (@ + 1) % U8]
         IN  sendOneSmsChunk(s1, encodeOk, sub[1], sub[2],
                             s1.smsMsgId, s1.smsMsgCount, s1.smsMsgIndex)
    ELSE setIdle(s)

\* FF_Sim7000::initComplete
initComplete(s) ==
    IF s.gsmStatus # 0
    THEN [s EXCEPT !.restartNeeded = TRUE, !.restartReason = s.gsmStatus]
    ELSE [setIdle(s) EXCEPT !.restartCount = @ + 1]

\* strtok skips the delimiters at the head of what is left
RECURSIVE SkipQuotes(_)
SkipQuotes(text) ==
    IF text # "" /\ SubSeq(text, 1, 1) = "\""
    THEN SkipQuotes(SubSeq(text, 2, Len(text)))
    ELSE text

\* the number gotSca takes out of lastAnswer with two calls of strtok: the
\* first token runs from the indicator to the first '"', the second one
\* from the first character after it that is not a '"' to the next '"' or
\* the end; "" when strtok returns NULL
ScaToken(answer) ==
    LET start == strpos(answer, CSCA_INDICATOR)
        rest == SubSeq(answer, start, Len(answer))
        q1 == strpos(rest, "\"")
        after == IF q1 = 0 THEN "" ELSE SkipQuotes(SubSeq(rest, q1 + 1, Len(rest)))
        q2 == strpos(after, "\"")
    IN  IF q2 = 0 THEN after ELSE SubSeq(after, 1, q2 - 1)

\* lastAnswer as strtok leaves it: the first '"' after the indicator is
\* overwritten with NUL
AfterStrtok(answer) ==
    LET start == strpos(answer, CSCA_INDICATOR)
        q1 == strpos(SubSeq(answer, start, Len(answer)), "\"")
    IN  IF q1 = 0 THEN answer ELSE SubSeq(answer, 1, start + q1 - 2)

\* the check gotSca makes of the number: digits, with an optional leading +
ScaNumberOk(n) ==
    \A i \in 1..Len(n) :
        \/ SubSeq(n, i, i) \in {"0", "1", "2", "3", "4", "5", "6", "7", "8", "9"}
        \/ (i = 1 /\ SubSeq(n, 1, 1) = "+")

RECURSIVE sendNextInitStep(_)

\* FF_Sim7000::gotSca
gotSca(s) ==
    IF ~strstr(s.lastAnswer, CSCA_INDICATOR)
    THEN [s EXCEPT !.restartReason = SIM7000_BAD_ANSWER, !.restartNeeded = TRUE]
    ELSE IF ScaToken(s.lastAnswer) = "" \/ ~ScaNumberOk(ScaToken(s.lastAnswer))
    THEN [s EXCEPT !.restartReason = SIM7000_BAD_ANSWER, !.restartNeeded = TRUE,
                   !.lastAnswer = AfterStrtok(@)]
    ELSE sendNextInitStep(resetLastAnswer(
             [s EXCEPT !.scaNumber = ScaToken(s.lastAnswer)]))

\* sendCurrentInitStep that waits for the default answer at every step
sendCurrentInitStepDefaultOnly(s) ==
    IF s.stepPtr < STEP_SIZE
    THEN LET step == initSteps[s.stepPtr + 1]
         IN  IF step.routine # ""
             THEN gotSca(s)
             ELSE sendCommand(s, step.command, "sendNextInitStep", DEFAULT_ANSWER,
                              step.timeout, step.repeat)
    ELSE s

\* FF_Sim7000::sendCurrentInitStep
sendCurrentInitStep(s) ==
    IF s.stepPtr < STEP_SIZE
    THEN LET step == initSteps[s.stepPtr + 1]
         IN  IF step.routine # ""
             THEN gotSca(s)
             ELSE IF step.waitFor # ""
             THEN \* the repeat count is outside the call's parentheses
                  sendCommand(s, step.command, "sendNextInitStep", step.waitFor,
                              step.timeout, 0)
             ELSE sendCommand(s, step.command, "sendNextInitStep", DEFAULT_ANSWER,
                              step.timeout, step.repeat)
    ELSE s

\* sendNextInitStep that leaves out a step of the table
sendNextInitStepSkips(s) ==
    LET s1 == [s EXCEPT !.stepPtr = (@ + 2) % U8]
    IN  IF s1.stepPtr < STEP_SIZE THEN sendCurrentInitStep(s1) ELSE initComplete(s1)

\* FF_Sim7000::sendNextInitStep
sendNextInitStep(s) ==
    LET s1 == [s EXCEPT !.stepPtr = (@ + 1) % U8]
    IN  IF s1.stepPtr < STEP_SIZE THEN sendCurrentInitStep(s1) ELSE initComplete(s1)

\* FF_Sim7000::deleteSMS
deleteSMS(s) ==
    sendCommand([s EXCEPT !.deletes = @ + 1],
                DELETE_COMMAND, "setIdle", DEFAULT_ANSWER, 20000, 0)

\* smsPdu.getSender, getTimeStamp and getText after decodePDU(msg)
PduSender(msg) == "sender of " \o msg
PduTimeStamp(msg) == "time stamp of " \o msg
PduText(msg) == "text of " \o msg

\* readSmsMessage counting the message whatever decodePDU returns
readSmsMessageCountsAll(s, msg, decodeOk) ==
    LET s1 == [s EXCEPT !.lastReceivedNumber = IF decodeOk THEN PduSender(msg) ELSE @,
                        !.lastReceivedDate = IF decodeOk THEN PduTimeStamp(msg) ELSE @,
                        !.lastReceivedMessage = IF decodeOk THEN PduText(msg) ELSE @,
                        !.smsForwardedCount = @ + 1]
        s2 == IF decodeOk /\ s1.readSmsCb
              THEN [s1 EXCEPT !.readCbCalls = @ + 1,
                              !.readCbArgs = <<s1.lastReceivedNumber,
                                               s1.lastReceivedDate,
                                               s1.lastReceivedMessage>>]
              ELSE s1
    IN  deleteSMS(s2)

\* FF_Sim7000::readSmsMessage; decodeOk is the result of smsPdu.decodePDU
readSmsMessage(s, msg, decodeOk) ==
    LET s1 == IF decodeOk
              THEN [s EXCEPT !.lastReceivedNumber = PduSender(msg),
                             !.lastReceivedDate = PduTimeStamp(msg),
                             !.lastReceivedMessage = PduText(msg),
                             !.smsForwardedCount = @ + 1]
              ELSE s
        s2 == IF decodeOk /\ s1.readSmsCb
              THEN [s1 EXCEPT !.readCbCalls = @ + 1,
                              !.readCbArgs = <<s1.lastReceivedNumber,
                                               s1.lastReceivedDate,
                                               s1.lastReceivedMessage>>]
              ELSE s1
    IN  deleteSMS(s2)

\* (this->*nextStepCb)() when nextStepCb is set, else setIdle()
CallNextStep(s, codecOk) ==
    CASE s.nextStepCb = "sendNextInitStep" -> sendNextInitStep(s)
      [] s.nextStepCb = "sendSMStext"      -> sendSMStext(s)
      [] s.nextStepCb = "sendNextSmsChunk" -> sendNextSmsChunk(s, codecOk)
      [] s.nextStepCb = "setIdle"          -> setIdle(s)
      [] OTHER                             -> setIdle(s)

(***************************************************************************)
(* doLoop                                                                  *)
(***************************************************************************)
\* the character at 0-based offset i of a C string, "" (NUL) past its end
CharAt(str, i) == IF i < Len(str) THEN SubSeq(str, i + 1, i + 1) ELSE ""

\* strncpy(lastCommand, src, sizeof(lastCommand))
CopyToLastCommand(src) == SubSeq(src, 1, Min(Len(src), 30))

\* the status character doLoop reads out of a line that holds CREG_MSG
CregResult(s) ==
    LET at == strpos(s.lastAnswer, CREG_MSG) - 1
        skip == IF strstr(s.lastCommand, CREG_QUERY)
                THEN (Len(CREG_MSG) + 1) + 1
                ELSE (Len(CREG_MSG) + 1) - 1
    IN  CharAt(s.lastAnswer, at + skip)

\* the test of a completed line with strstr for every expected answer
IsExpectedAnswerAnywhere(s) == strstr(s.lastAnswer, s.expectedAnswer)

\* the test doLoop makes of a completed line against expectedAnswer
IsExpectedAnswer(s) ==
    LET isDefaultAnwer == (s.expectedAnswer = DEFAULT_ANSWER)
    IN  \/ (isDefaultAnwer /\ s.lastAnswer = s.expectedAnswer)
        \/ (~isDefaultAnwer /\ strstr(s.lastAnswer, s.expectedAnswer))

IsCmError(s) ==
    strstr(s.lastAnswer, "+CMS ERROR") \/ strstr(s.lastAnswer, "+CME ERROR")

\* the deadline check with <= in place of < in the test of the repeat count
CheckTimeoutRepeatsOnceMore(s, codecOk) ==
    IF s.inReceive /\ s.elapsed >= s.gsmTimeout
    THEN IF s.ignoreErrors
         THEN CallNextStep([s EXCEPT !.trace = "Ignoring time out"], codecOk)
         ELSE IF s.stepRepeatCount <= s.stepMaxRepeatcount
         THEN sendCurrentInitStep([s EXCEPT !.stepRepeatCount = (@ + 1) % U8,
                                           !.trace = "Repeat"])
         ELSE IF s.lastAnswer # ""
         THEN setIdle([s EXCEPT !.gsmStatus = SIM7000_BAD_ANSWER,
                                !.restartNeeded = TRUE,
                                !.restartReason = SIM7000_BAD_ANSWER,
                                !.trace = "Partial answer"])
         ELSE setIdle([s EXCEPT !.gsmStatus = SIM7000_TIMEOUT,
                                !.restartNeeded = TRUE,
                                !.restartReason = SIM7000_TIMEOUT,
                                !.trace = "Timed out"])
    ELSE s

\* the part of doLoop that follows the read loop: the deadline of the
\* pending command
CheckTimeout(s, codecOk) ==
    IF s.inReceive /\ s.elapsed >= s.gsmTimeout
    THEN IF s.ignoreErrors
         THEN CallNextStep([s EXCEPT !.trace = "Ignoring time out"], codecOk)
         ELSE IF s.stepRepeatCount < s.stepMaxRepeatcount
         THEN sendCurrentInitStep([s EXCEPT !.stepRepeatCount = (@ + 1) % U8,
                                           !.trace = "Repeat"])
         ELSE IF s.lastAnswer # ""
         THEN setIdle([s EXCEPT !.gsmStatus = SIM7000_BAD_ANSWER,
                                !.restartNeeded = TRUE,
                                !.restartReason = SIM7000_BAD_ANSWER,
                                !.trace = "Partial answer"])
         ELSE setIdle([s EXCEPT !.gsmStatus = SIM7000_TIMEOUT,
                                !.restartNeeded = TRUE,
                                !.restartReason = SIM7000_TIMEOUT,
                                !.trace = "Timed out"])
    ELSE s

\* what doLoop does with a completed line (LF read) when it returns at once;
\* LineReturns tells the one case in which the read loop goes on instead
LineReturns(s) ==
    \/ strstr(s.lastAnswer, CREG_MSG)
    \/ (s.inReceive /\ IsExpectedAnswer(s))
    \/ (s.inReceive /\ ~s.ignoreErrors /\ IsCmError(s))
    \/ s.lastAnswer # ""

\* LineDone without the test for a registration line, which is then routed
\* like any other line
LineDoneRoutesCreg(s, codecOk) ==
    IF s.inReceive /\ IsExpectedAnswer(s)
    THEN CallNextStep([s EXCEPT !.gsmStatus = SIM7000_OK, !.trace = "Reply"], codecOk)
    ELSE IF s.inReceive /\ ~s.ignoreErrors /\ IsCmError(s)
    THEN setIdle([s EXCEPT !.gsmStatus = SIM7000_CM_ERROR,
                           !.restartNeeded = TRUE,
                           !.restartReason = SIM7000_CM_ERROR,
                           !.trace = "Error answer"])
    ELSE IF s.nextLineIsSmsMessage
    THEN [resetLastAnswer(readSmsMessage([s EXCEPT !.trace = "Message"],
                                         s.lastAnswer, codecOk))
             EXCEPT !.nextLineIsSmsMessage = FALSE]
    ELSE IF strstr(s.lastAnswer, SMS_INDICATOR)
    THEN \* readSmsHeader, then the wait for the payload line
         [s EXCEPT !.lastCommand = CopyToLastCommand(s.lastAnswer),
                   !.nextLineIsSmsMessage = TRUE,
                   !.notices = @ + 1,
                   !.lastAnswer = "",
                   !.inReceive = TRUE,
                   !.gsmTimeout = 2000,
                   !.elapsed = 0,
                   !.heard = FALSE,
                   !.trace = "Indicator"]
    ELSE resetLastAnswer([s EXCEPT !.lineCbCalls = IF s.recvLineCb THEN @ + 1 ELSE @,
                                   !.trace = "Ignoring"])

LineDone(s, codecOk) ==
    IF strstr(s.lastAnswer, CREG_MSG)
    THEN resetLastAnswer([s EXCEPT !.smsReady = (CregResult(s) \in {"1", "5"}),
                                   !.trace = "Got CREG"])
    ELSE IF s.inReceive /\ IsExpectedAnswer(s)
    THEN CallNextStep([s EXCEPT !.gsmStatus = SIM7000_OK, !.trace = "Reply"], codecOk)
    ELSE IF s.inReceive /\ ~s.ignoreErrors /\ IsCmError(s)
    THEN setIdle([s EXCEPT !.gsmStatus = SIM7000_CM_ERROR,
                           !.restartNeeded = TRUE,
                           !.restartReason = SIM7000_CM_ERROR,
                           !.trace = "Error answer"])
    ELSE IF s.nextLineIsSmsMessage
    THEN [resetLastAnswer(readSmsMessage([s EXCEPT !.trace = "Message"],
                                         s.lastAnswer, codecOk))
             EXCEPT !.nextLineIsSmsMessage = FALSE]
    ELSE IF strstr(s.lastAnswer, SMS_INDICATOR)
    THEN \* readSmsHeader, then the wait for the payload line
         [s EXCEPT !.lastCommand = CopyToLastCommand(s.lastAnswer),
                   !.nextLineIsSmsMessage = TRUE,
                   !.notices = @ + 1,
                   !.lastAnswer = "",
                   !.inReceive = TRUE,
                   !.gsmTimeout = 2000,
                   !.elapsed = 0,
                   !.heard = FALSE,
                   !.trace = "Indicator"]
    ELSE resetLastAnswer([s EXCEPT !.lineCbCalls = IF s.recvLineCb THEN @ + 1 ELSE @,
                                   !.trace = "Ignoring"])

\* the length test doLoop makes before every byte but NUL and CR, with the
\* size of the array in place of the size less two
AnswerTooLongAtArrayEnd(s) == Len(s.lastAnswer) >= MAX_ANSWER

\* the length test doLoop makes before every byte but NUL and CR
AnswerTooLong(s) == Len(s.lastAnswer) >= MAX_ANSWER - 2

\* the number of bytes at the head of the input that the read loop appends
\* to lastAnswer one after the other with none of its tests succeeding: they
\* are neither CR nor LF nor the one-character expected answer, and the
\* buffer has room for them
PlainRun(s) ==
    LET plain(i) == /\ SubSeq(s.rx, i, i) \notin {"\r", "\n"}
                    /\ ~(Len(s.expectedAnswer) = 1 /\ SubSeq(s.rx, i, i) = s.expectedAnswer)
        run == CHOOSE n \in 0..Len(s.rx) :
                   /\ n = Len(s.rx) \/ ~plain(n + 1)
                   /\ \A i \in 1..n : plain(i)
    IN  Min(run, (MAX_ANSWER - 2) - Len(s.lastAnswer))

\* the read loop without the test of the byte appended against a
\* one-character expected answer
RECURSIVE ReadLoopWaitsForLineEnd(_, _)
ReadLoopWaitsForLineEnd(s, codecOk) ==
    IF s.rx = ""
    THEN CheckTimeout(s, codecOk)
    ELSE IF PlainRun(s) >= 1
    THEN ReadLoopWaitsForLineEnd([s EXCEPT !.rx = SubSeq(s.rx, PlainRun(s) + 1, Len(s.rx)),
                            !.lastAnswer = @ \o SubSeq(s.rx, 1, PlainRun(s)),
                            !.modemSpeaking = TRUE,
                            !.bytesRead = TRUE,
                            !.heard = @ \/ (s.elapsed < s.gsmTimeout)],
                  codecOk)
    ELSE LET c == SubSeq(s.rx, 1, 1)
             s1 == [s EXCEPT !.rx = SubSeq(s.rx, 2, Len(s.rx)),
                             !.modemSpeaking = TRUE,
                             !.bytesRead = TRUE,
                             !.heard = @ \/ (s.elapsed < s.gsmTimeout)]
         IN  IF c = "\r"
             THEN ReadLoopWaitsForLineEnd(s1, codecOk)
             ELSE IF AnswerTooLong(s1)
             THEN resetLastAnswer([s1 EXCEPT !.gsmStatus = SIM7000_TOO_LONG,
                                             !.trace = "Answer too long"])
             ELSE IF c = "\n"
             THEN IF LineReturns(s1)
                  THEN LineDone(s1, codecOk)
                  ELSE ReadLoopWaitsForLineEnd(s1, codecOk)
             ELSE ReadLoopWaitsForLineEnd([s1 EXCEPT !.lastAnswer = @ \o c], codecOk)

\* the read loop of doLoop, then (when no branch returned) the deadline check
RECURSIVE ReadLoop(_, _)
ReadLoop(s, codecOk) ==
    IF s.rx = ""
    THEN CheckTimeout(s, codecOk)
    ELSE IF PlainRun(s) >= 1
    THEN ReadLoop([s EXCEPT !.rx = SubSeq(s.rx, PlainRun(s) + 1, Len(s.rx)),
                            !.lastAnswer = @ \o SubSeq(s.rx, 1, PlainRun(s)),
                            !.modemSpeaking = TRUE,
                            !.bytesRead = TRUE,
                            !.heard = @ \/ (s.elapsed < s.gsmTimeout)],
                  codecOk)
    ELSE LET c == SubSeq(s.rx, 1, 1)
             s1 == [s EXCEPT !.rx = SubSeq(s.rx, 2, Len(s.rx)),
                             !.modemSpeaking = TRUE,
                             !.bytesRead = TRUE,
                             !.heard = @ \/ (s.elapsed < s.gsmTimeout)]
         IN  IF c = "\r"
             THEN ReadLoop(s1, codecOk)
             ELSE IF AnswerTooLong(s1)
             THEN resetLastAnswer([s1 EXCEPT !.gsmStatus = SIM7000_TOO_LONG,
                                             !.trace = "Answer too long"])
             ELSE IF c = "\n"
             THEN IF LineReturns(s1)
                  THEN LineDone(s1, codecOk)
                  ELSE ReadLoop(s1, codecOk)
             ELSE LET s2 == [s1 EXCEPT !.lastAnswer = @ \o c]
                  IN  IF Len(s2.expectedAnswer) = 1 /\ c = s2.expectedAnswer
                      THEN CallNextStep([s2 EXCEPT !.gsmStatus = SIM7000_OK,
                                                   !.trace = "Reply"], codecOk)
                      ELSE ReadLoop(s2, codecOk)

\* FF_Sim7000::setPowerPin: odd steps write the inactive level; the time
\* stamp taken is also the mark of a sequence under way, and it is no mark
\* when millis() reads 0
setPowerPin(s) ==
    [s EXCEPT !.pinLevel = IF s.powerStep % 2 = 1 THEN "LOW" ELSE "HIGH",
              !.inPower = ~s.clockZero,
              !.powerElapsed = 0]

\* FF_Sim7000::open, with openModem (the port is begun again, its pending
\* input flushed)
open(s) ==
    sendCurrentInitStep(
        [s EXCEPT !.rx = "", !.txLast = "", !.txRepeat = 0, !.owed = <<>>,
                  !.opens = @ + 1,
                  !.smsReady = FALSE,
                  !.stepPtr = 0,
                  !.stepMaxRepeatcount = 0,
                  !.stepRepeatCount = 0])

\* doLoop with the deadline of the pending command looked at before the
\* bytes received
doLoopDeadlineFirst(s, codecOk) ==
    LET s0 == [s EXCEPT !.trace = ""]
    IN  IF s0.inPower
        THEN IF s0.powerElapsed >= s0.powerStepDuration[s0.powerStep + 1]
             THEN LET s1 == setPowerPin([s0 EXCEPT !.powerStep = @ + 1])
                  IN  IF s1.powerStepDuration[s1.powerStep + 1] = 0
                      THEN open([s1 EXCEPT !.inPower = FALSE,
                                           !.pinMode = "OUTPUT_OPEN_DRAIN"])
                      ELSE s1
             ELSE s0
        ELSE IF s0.inReceive /\ s0.elapsed >= s0.gsmTimeout
        THEN CheckTimeout(s0, codecOk)
        ELSE ReadLoop(s0, codecOk)

\* FF_Sim7000::doLoop
doLoop(s, codecOk) ==
    LET s0 == [s EXCEPT !.trace = ""]
    IN  IF s0.inPower
        THEN IF s0.powerElapsed >= s0.powerStepDuration[s0.powerStep + 1]
             THEN LET s1 == setPowerPin([s0 EXCEPT !.powerStep = @ + 1])
                  IN  IF s1.powerStepDuration[s1.powerStep + 1] = 0
                      THEN open([s1 EXCEPT !.inPower = FALSE,
                                           !.pinMode = "OUTPUT_OPEN_DRAIN"])
                      ELSE s1
             ELSE s0
        ELSE ReadLoop(s0, codecOk)

(***************************************************************************)
(* The public routines                                                     *)
(***************************************************************************)
\* begin() that starts every power sequence at step 0
beginFromStepZero(s, powerPin) ==
    LET s1 == [s EXCEPT !.trace = "",
                        !.restartNeeded = FALSE,
                        !.inReceive = FALSE,
                        !.gsmIdle = SIM7000_STARTING,
                        !.modemPowerPin = powerPin,
                        !.powerStep = 0]
        s2 == IF powerPin < 0
              THEN open([s1 EXCEPT !.powerStepDuration[1] = 0, !.inPower = FALSE])
              ELSE setPowerPin([s1 EXCEPT !.pinMode = "OUTPUT"])
    IN  [s2 EXCEPT !.firstInitDone = TRUE, !.modemSpeaking = FALSE,
                   !.bytesRead = FALSE]

\* FF_Sim7000::begin
begin(s, powerPin) ==
    LET s1 == [s EXCEPT !.trace = "",
                        !.restartNeeded = FALSE,
                        !.inReceive = FALSE,
                        !.gsmIdle = SIM7000_STARTING,
                        !.modemPowerPin = powerPin,
                        !.powerStep = 0]
        s2 == IF powerPin < 0
              THEN open([s1 EXCEPT !.powerStepDuration[1] = 0, !.inPower = FALSE])
              ELSE setPowerPin(
                     IF s1.firstInitDone /\ ~s1.modemSpeaking
                     THEN [s1 EXCEPT !.powerStep = 2, !.pinMode = "OUTPUT"]
                     ELSE [s1 EXCEPT !.pinMode = "OUTPUT"])
    IN  [s2 EXCEPT !.firstInitDone = TRUE, !.modemSpeaking = FALSE,
                   !.bytesRead = FALSE]

\* FF_Sim7000::sendSMS
sendSMS(s, text, encodeOk) ==
    LET gsm7Length == Gsm7Scan(text)
        plan == IF gsm7Length # 0
                THEN PlanGsm7(gsm7Length)
                ELSE PlanUcs2(ucs2MessageLength(text))
        s1 == [s EXCEPT !.trace = "",
                        !.gsm7Length = gsm7Length,
                        !.smsMsgCount = plan[1],
                        !.smsMsgId = IF plan[2] # 0 THEN (@ + 1) % U16 ELSE @,
                        !.smsChunkSize = IF plan[2] # 0 THEN plan[2] ELSE @,
                        !.lastSentMessage = text,
                        !.payloads = 0,
                        !.pduCalls = 0]
    IN  IF s1.smsMsgCount = 0
        THEN sendOneSmsChunk(s1, encodeOk, 0, TextLen(text), 0, 0, 0)
        ELSE LET sub == Substring(TextLen(text), 0, s1.smsChunkSize)
                 s2 == [s1 EXCEPT !.smsMsgIndex = 1]
             IN  sendOneSmsChunk(s2, encodeOk, sub[1], sub[2],
                                 s2.smsMsgId, s2.smsMsgCount, s2.smsMsgIndex)

\* FF_Sim7000::isIdle
isIdle(s) == s.gsmIdle = SIM7000_IDLE

\* FF_Sim7000::isSending
isSending(s) == s.gsmIdle = SIM7000_SEND

\* FF_Sim7000::isReceiving
isReceiving(s) == s.gsmIdle = SIM7000_RECV

\* FF_Sim7000::needRestart
needRestart(s) == s.restartNeeded

\* FF_Sim7000::setRestart
setRestart(s, restartFlag) == [s EXCEPT !.restartNeeded = restartFlag]

\* FF_Sim7000::registerSmsCb, with a callback that is not NULL
registerSmsCb(s) == [s EXCEPT !.readSmsCb = TRUE]

\* FF_Sim7000::registerSendCb, with a callback that is not NULL
registerSendCb(s) == [s EXCEPT !.sendSmsCb = TRUE]

\* FF_Sim7000::registerLineCb, with a callback that is not NULL
registerLineCb(s) == [s EXCEPT !.recvLineCb = TRUE]

(***************************************************************************)
(* The environment: the driver's main loop, the clock, the modem           *)
(***************************************************************************)
MaxBegins == 1
MaxSends == 1
MaxNoise == 1
MaxLatePolls == 2
MaxOwed == 2

\* the modem keeps the last MaxOwed commands it has not answered yet
Modem(s) ==
    [s EXCEPT !.owed = IF Len(@) > MaxOwed
                       THEN SubSeq(@, Len(@) - MaxOwed + 1, Len(@))
                       ELSE @]

\* the texts the driver sends: short, and long enough for two chunks
Texts == { << [ch |-> <<97>>, n |-> 3] >>, << [ch |-> <<97>>, n |-> 161] >> }

\* the reply the modem gives to a command
ReplyTo(command) ==
    CASE command = CMGS_COMMAND -> ">"
      [] command = CTRL_Z       -> "+CMGS: 7\r\n"
      [] command = "AT+CSCA?"   -> "+CSCA: \"+336\",145\r\n"
      [] OTHER                  -> "OK\r\n"

\* what else the modem may put on the line: a receive notice alone or with
\* its payload line, a payload line alone, an error report, an unknown line,
\* a registration push, a line cut short
NoiseLines ==
    { "+CMT: ,24\r\n", "+CMT: ,24\r\n07913306\r\n", "07913306\r\n",
      "+CME ERROR: 10\r\n", "ERROR\r\n", "+CREG: 1\r\n", "+CM" }

\* the driver calls begin() at start-up, and again when a restart is needed
Begin ==
    /\ begins < MaxBegins
    /\ begins = 0 \/ sim.restartNeeded
    /\ \E powerPin \in {-1, 4} :
         /\ begins > 0 => powerPin = sim.modemPowerPin
         /\ sim' = Modem(begin(sim, powerPin))
    /\ begins' = begins + 1
    /\ late' = 0
    /\ UNCHANGED <<sends, noise>>

\* the driver sends a message when isIdle() says it may
SendFrom(texts) ==
    /\ sim.firstInitDone
    /\ isIdle(sim)
    /\ sends < MaxSends
    /\ \E text \in texts, encodeOk \in BOOLEAN : sim' = Modem(sendSMS(sim, text, encodeOk))
    /\ sends' = sends + 1
    /\ UNCHANGED <<begins, noise, late>>

SendSMS == SendFrom(Texts)

\* the driver's main loop calls doLoop(); it goes on doing so for at most
\* MaxLatePolls calls once needRestart() is true
DoLoop ==
    /\ sim.firstInitDone
    /\ sim.restartNeeded => late < MaxLatePolls
    /\ \E codecOk \in BOOLEAN : sim' = Modem(doLoop(sim, codecOk))
    /\ late' = IF sim.restartNeeded THEN late + 1 ELSE late
    /\ UNCHANGED <<sends, begins, noise>>

\* the driver's main loop calls doLoop(), whatever needRestart() says
Poll ==
    /\ sim.firstInitDone
    /\ \E codecOk \in BOOLEAN : sim' = Modem(doLoop(sim, codecOk))
    /\ UNCHANGED <<sends, begins, noise, late>>

\* the driver sets the public ignoreErrors flag before it starts the modem
SetIgnoreErrors ==
    /\ begins = 0
    /\ \E b \in BOOLEAN : sim' = [sim EXCEPT !.ignoreErrors = b]
    /\ UNCHANGED <<sends, begins, noise, late>>

\* millis() advances: the clock is sampled at half of the current dwell or
\* deadline, and when it is reached
Tick ==
    /\ \/ /\ sim.inPower
          /\ sim.powerElapsed < sim.powerStepDuration[sim.powerStep + 1]
          /\ sim' = [sim EXCEPT !.powerElapsed =
                         Min(@ + sim.powerStepDuration[sim.powerStep + 1] \div 2,
                             sim.powerStepDuration[sim.powerStep + 1])]
       \/ /\ sim.firstInitDone
          /\ ~sim.inPower
          /\ sim.inReceive
          /\ sim.elapsed < sim.gsmTimeout
          /\ sim' = [sim EXCEPT !.elapsed = Min(@ + sim.gsmTimeout \div 2, sim.gsmTimeout)]
    /\ UNCHANGED <<sends, begins, noise, late>>

\* the modem answers the commands it was sent, each once and in order
ModemReply ==
    /\ sim.firstInitDone
    /\ ~sim.inPower
    /\ sim.owed # <<>>
    /\ sim.rx = ""
    /\ sim' = [sim EXCEPT !.rx = ReplyTo(Head(sim.owed)), !.owed = Tail(@)]
    /\ UNCHANGED <<sends, begins, noise, late>>

\* the modem sends something else
ModemNoise ==
    /\ sim.firstInitDone
    /\ ~sim.inPower
    /\ sim.rx = ""
    /\ noise < MaxNoise
    /\ \E line \in NoiseLines : sim' = [sim EXCEPT !.rx = line]
    /\ noise' = noise + 1
    /\ UNCHANGED <<sends, begins, late>>

Init == sim = Constructed /\ sends = 0 /\ begins = 0 /\ noise = 0 /\ late = 0

Next ==
    \/ Begin
    \/ SendSMS
    \/ DoLoop
    \/ SetIgnoreErrors
    \/ Tick
    \/ ModemReply
    \/ ModemNoise

Spec == Init /\ [][Next]_vars

(***************************************************************************)
(* A modem that never sends a byte: the driver, the clock and nothing else *)
(***************************************************************************)
NextSilent ==
    \/ Begin
    \/ DoLoop
    \/ SetIgnoreErrors
    \/ Tick

\* doLoop() is called from the driver's loop() for ever and millis() keeps
\* advancing
SpecSilent == Init /\ [][NextSilent]_vars /\ WF_vars(DoLoop) /\ WF_vars(Tick)

(***************************************************************************)
(* Sending texts through a modem that answers in time                      *)
(***************************************************************************)
\* the modem goes through the init table, answering every command at once
RECURSIVE RunInit(_)
RunInit(s) ==
    IF s.inReceive
    THEN RunInit(doLoop([s EXCEPT !.rx = ReplyTo(Head(s.owed)), !.owed = Tail(@)], TRUE))
    ELSE s

\* the session after begin() without a power pin and a completed init
Ready == RunInit(begin(Constructed, -1))

\* n copies of the UTF-8 character ch
Run(ch, n) == << [ch |-> ch, n |-> n] >>

LatinA == <<97>>
LeftBrace == <<123>>
EAcute == <<195, 169>>
Euro == <<226, 130, 172>>
Han == <<228, 184, 173>>

\* the texts sent: runs of one character around the capacities and the
\* chunk sizes, at the two ends of the chunk counter, and mixed texts
SmsTexts ==
    { Run(LatinA, n) : n \in {0, 1, 160, 161, 304, 305, 38760, 38761} }
    \cup { Run(LeftBrace, n) : n \in {80, 81, 100} }
    \cup { Run(EAcute, n) : n \in {1, 35, 36, 80} }
    \cup { Run(Euro, n) : n \in {1, 81} }
    \cup { Run(Han, n) : n \in {1, 35, 36, 45, 70, 71} }
    \cup { Run(LatinA, 159) \o Run(Han, 1),
           Run(LatinA, 200) \o Run(Han, 1),
           Run(Han, 1) \o Run(LatinA, 200),
           Run(LatinA, 100) \o Run(EAcute, 1) \o Run(LeftBrace, 40) }

SendText == SendFrom(SmsTexts)

\* millis() advances, and stays short of the deadline of the pending command
TickEarly ==
    /\ sim.inReceive
    /\ sim.elapsed = 0
    /\ sim' = [sim EXCEPT !.elapsed = sim.gsmTimeout \div 2]
    /\ UNCHANGED <<sends, begins, noise, late>>

\* a message arrives: the modem sends its notice line and its payload line
ModemNotice ==
    /\ sim.rx = ""
    /\ noise < MaxNoise
    /\ sim' = [sim EXCEPT !.rx = "+CMT: ,24\r\n07913306\r\n"]
    /\ noise' = noise + 1
    /\ UNCHANGED <<sends, begins, late>>

InitSms == sim = Ready /\ sends = 0 /\ begins = 1 /\ noise = 0 /\ late = 0

NextSms ==
    \/ SendText
    \/ DoLoop
    \/ TickEarly
    \/ ModemReply
    \/ ModemNotice

SpecSms == InitSms /\ [][NextSms]_vars

(***************************************************************************)
(* A modem that sends long runs of bytes, in pieces                        *)
(***************************************************************************)
MaxPieces == 2

\* n bytes 'x'
RECURSIVE Xs(_)
Xs(n) == IF n = 0 THEN "" ELSE IF n = 1 THEN "x" ELSE Xs(n \div 2) \o Xs(n - n \div 2)

\* the modem goes on with a line that has no end, a third of the buffer's
\* capacity at a time, up to that capacity: the byte that is one too many
\* is one of Pieces
ModemRun ==
    /\ sim.rx = ""
    /\ Len(sim.lastAnswer) + (MAX_ANSWER - 2) \div 3 <= MAX_ANSWER - 2
    /\ sim' = [sim EXCEPT !.rx = Xs((MAX_ANSWER - 2) \div 3)]
    /\ UNCHANGED <<sends, begins, noise, late>>

\* what else the modem puts on the line: one more byte, a line end, a
\* one-byte prompt, a receive notice
Pieces == { "x", "\r\n", ">", "+CMT: ,24\r\n" }

ModemPiece ==
    /\ sim.rx = ""
    /\ noise < MaxPieces
    /\ \E piece \in Pieces : sim' = [sim EXCEPT !.rx = piece]
    /\ noise' = noise + 1
    /\ UNCHANGED <<sends, begins, late>>

\* the driver sends a short message
SendShort == SendFrom({ Run(LatinA, 3) })

NextLong ==
    \/ SendShort
    \/ DoLoop
    \/ Tick
    \/ ModemReply
    \/ ModemRun
    \/ ModemPiece

SpecLong == InitSms /\ [][NextLong]_vars

(***************************************************************************)
(* Receiving and sending with the driver's callbacks registered            *)
(***************************************************************************)
MaxLines == 3

\* the driver registers its callbacks before there is any traffic
RegisterSmsCb ==
    /\ ~sim.readSmsCb
    /\ sends = 0 /\ noise = 0
    /\ sim' = registerSmsCb(sim)
    /\ UNCHANGED <<sends, begins, noise, late>>

RegisterSendCb ==
    /\ ~sim.sendSmsCb
    /\ sends = 0 /\ noise = 0
    /\ sim' = registerSendCb(sim)
    /\ UNCHANGED <<sends, begins, noise, late>>

\* the lines of a reception: the notice, the payload, and a line that is
\* neither
RecvLines == { "+CMT: ,24\r\n", "07913306\r\n", "RING\r\n" }

ModemLine ==
    /\ sim.rx = ""
    /\ noise < MaxLines
    /\ \E line \in RecvLines : sim' = [sim EXCEPT !.rx = line]
    /\ noise' = noise + 1
    /\ UNCHANGED <<sends, begins, late>>

NextRecv ==
    \/ RegisterSmsCb
    \/ RegisterSendCb
    \/ SendShort
    \/ DoLoop
    \/ Tick
    \/ ModemReply
    \/ ModemLine

SpecRecv == InitSms /\ [][NextRecv]_vars

\* receptions alone
NextNotice ==
    \/ Poll
    \/ Tick
    \/ ModemReply
    \/ ModemLine

\* doLoop() is called from the driver's loop() for ever and millis() keeps
\* advancing
SpecNotice == InitSms /\ [][NextNotice]_vars /\ WF_vars(Poll) /\ WF_vars(Tick)

\* sending alone, through a modem that may answer
NextSend ==
    \/ RegisterSendCb
    \/ SendSMS
    \/ DoLoop
    \/ Tick
    \/ ModemReply

\* doLoop() is called from the driver's loop() for ever and millis() keeps
\* advancing
SpecSend == InitSms /\ [][NextSend]_vars /\ WF_vars(DoLoop) /\ WF_vars(Tick)

(***************************************************************************)
(* A driver that goes on polling whatever needRestart() says               *)
(***************************************************************************)
\* the driver acknowledges the restart request
SetRestart ==
    /\ needRestart(sim)
    /\ sim' = setRestart(sim, FALSE)
    /\ UNCHANGED <<sends, begins, noise, late>>

NextAdvisory ==
    \/ Begin
    \/ SetIgnoreErrors
    \/ Poll
    \/ Tick
    \/ SetRestart

SpecAdvisory == Init /\ [][NextAdvisory]_vars

(***************************************************************************)
(* Properties of the chunk planning of sendSMS                             *)
(***************************************************************************)
\* the number of UTF-8 characters (code points) of a text
RECURSIVE CodePoints(_)
CodePoints(text) ==
    IF text = <<>> THEN 0 ELSE text[1].n + CodePoints(Tail(text))

\* the units the classification table gives one whole character
CharUnits(ch) ==
    getGsm7EquivalentLen(ch[1],
                         IF Len(ch) >= 2 THEN ch[2] ELSE 0,
                         IF Len(ch) >= 3 THEN ch[3] ELSE 0)

\* every character of the text is in the classification table
AllSupported(text) ==
    \A k \in 1..Len(text) : text[k].n > 0 => CharUnits(text[k].ch) # 0

\* the sum of the units of the characters of the text
RECURSIVE UnitsOf(_)
UnitsOf(text) ==
    IF text = <<>> THEN 0
    ELSE text[1].n * CharUnits(text[1].ch) + UnitsOf(Tail(text))

CeilDiv(a, b) == (a + b - 1) \div b

\* sendSMS has been called: the plan in sim is the plan of lastSentMessage
Planned == sends > 0

\* C2: when sendSMS splits a text, the substrings taken at k * smsChunkSize
\* cover it: the last chunk starts inside the text and ends at its end.
C2_ChunksCoverText ==
    (Planned /\ sim.smsMsgCount # 0) =>
        LET len == TextLen(sim.lastSentMessage)
            startPos == (sim.smsMsgCount - 1) * sim.smsChunkSize
            last == Substring(len, startPos, startPos + sim.smsChunkSize)
        IN  startPos < len /\ last[2] = len

\* C3: for a message longer than the single-message capacity, smsMsgCount
\* is ceil(length / 152) for a 7-bit message and ceil(length / 67) for a
\* 16-bit one.
C3_ChunkCountIsCeiling ==
    Planned =>
        IF sim.gsm7Length # 0
        THEN sim.gsm7Length > 160 => sim.smsMsgCount = CeilDiv(sim.gsm7Length, 152)
        ELSE LET ucs2Length == 2 * CodePoints(sim.lastSentMessage)
             IN  ucs2Length > 70 => sim.smsMsgCount = CeilDiv(ucs2Length, 67)

\* C4: a 7-bit message of 160 units is not split and one of 161 units gets
\* two chunks of 152; a 16-bit message of 70 characters is not split and
\* one of 71 characters gets two chunks of 67.
C4_SplitThresholds ==
    Planned =>
        /\ sim.gsm7Length = 160 => sim.smsMsgCount = 0
        /\ sim.gsm7Length = 161 => (sim.smsMsgCount = 2 /\ sim.smsChunkSize = 152)
        /\ (sim.gsm7Length = 0 /\ CodePoints(sim.lastSentMessage) = 70)
              => sim.smsMsgCount = 0
        /\ (sim.gsm7Length = 0 /\ CodePoints(sim.lastSentMessage) = 71)
              => (sim.smsMsgCount = 2 /\ sim.smsChunkSize = 67)

C6_ScanByCharacter ==
    (Planned /\ AllSupported(sim.lastSentMessage)
             /\ CodePoints(sim.lastSentMessage) > 0) =>
        sim.gsm7Length = UnitsOf(sim.lastSentMessage)

(***************************************************************************)
(* Properties of the command engine                                        *)
(***************************************************************************)
\* the slot of the pending command: what sendCommand arms
Slot(s) == <<s.expectedAnswer, s.nextStepCb, s.gsmTimeout>>

\* C1: while a command is outstanding its slot changes only in a call of
\* doLoop that has resolved it: by the expected reply, by a repeat at the
\* deadline, or by the deadline with errors ignored.
C1_SingleOutstandingCommand ==
    [][ (/\ begins' = begins
         /\ sim.inReceive
         /\ sim'.inReceive
         /\ Slot(sim') # Slot(sim)) =>
            sim'.trace \in {"Reply", "Repeat", "Ignoring time out"}
      ]_vars

\* a chunk was handed to the codec by the continuation of the previous one
NextChunkStep == sends' = sends /\ sim'.pduCalls # sim.pduCalls

\* what C7 says of every next chunk but for the reason it was requested
ChunkInOrder ==
    /\ sim'.smsMsgCount >= 2
    /\ sim'.pduCalls = sim.pduCalls + 1
    /\ sim'.pduIndex = sim.pduIndex + 1
    /\ sim'.pduIndex <= sim'.smsMsgCount

\* the step matched the confirmation line of the previous chunk
AfterConfirmation == sim'.trace = "Reply" /\ sim.expectedAnswer = "+CMGS:"

\* the first chunk of a split message has index 1
FirstChunkIsOne ==
    (sends' # sends /\ sim'.smsMsgCount # 0) => sim'.pduIndex = 1

PendingStrict == sim.firstInitDone /\ sim.inReceive /\ ~sim.ignoreErrors

\* the Timeout outcome
TimeoutOutcome ==
    /\ sim.restartNeeded
    /\ sim.restartReason = SIM7000_TIMEOUT
    /\ sim.gsmIdle = SIM7000_IDLE
    /\ ~sim.inReceive

\* C9: with a modem that sends nothing and errors not ignored, a command
\* with repeat count N is written at most N + 1 times, and the session then
\* reaches the Timeout outcome.
C9_RepeatCountThenTimeout ==
    /\ [](PendingStrict => sim.txRepeat <= sim.stepMaxRepeatcount + 1)
    /\ (PendingStrict ~> TimeoutOutcome)

\* "AT", with its repeat count of 9, was written ten times and timed out
C9_Witness ==
    /\ TimeoutOutcome
    /\ ~sim.ignoreErrors
    /\ ~sim.modemSpeaking
    /\ sim.txLast = "AT"
    /\ sim.txRepeat = 10
    /\ sim.trace = "Timed out"

\* C10: when the deadline passes with no repeat left and errors not
\* ignored, the outcome is BadAnswer if a byte was read between the arming
\* of the command and its deadline, and Timeout if the modem never sent a
\* byte.
C10_TimeoutIffNothingReceived ==
    (sim.trace \in {"Timed out", "Partial answer"}) =>
        /\ sim.heard => sim.restartReason = SIM7000_BAD_ANSWER
        /\ ~sim.modemSpeaking => sim.restartReason = SIM7000_TIMEOUT

\* C8: a send that was accepted, and whose chunks the codec all encoded,
\* leaves SIM7000_SEND for SIM7000_IDLE with no restart needed and after
\* one payload per planned chunk (one payload for a message that is not
\* split).
C8_SendEndsIdleAfterAllPayloads ==
    [][ (/\ sim.gsmIdle = SIM7000_SEND
         /\ sim'.gsmIdle = SIM7000_IDLE
         /\ sim'.pduCalls = sim'.payloads) =>
            /\ ~sim'.restartNeeded
            /\ sim'.payloads = IF sim'.smsMsgCount = 0 THEN 1 ELSE sim'.smsMsgCount
      ]_vars

(***************************************************************************)
(* Properties of the failure outcomes                                      *)
(***************************************************************************)
\* the code of the outcome a call of doLoop has just reported, 0 for none
OutcomeCode(s) ==
    CASE s.trace = "Timed out"      -> SIM7000_TIMEOUT
      [] s.trace = "Partial answer" -> SIM7000_BAD_ANSWER
      [] s.trace = "Error answer"   -> SIM7000_CM_ERROR
      [] OTHER                      -> 0

\* C11: each of the outcomes Timeout, BadAnswer and DeviceError sets the
\* restart-needed flag, sets the restart reason (and the command status) to
\* the code of that outcome, puts the mode to Idle and leaves no command
\* outstanding.
C11_FailureOutcomeLatchesRestart ==
    (OutcomeCode(sim) # 0) =>
        /\ sim.restartNeeded
        /\ sim.restartReason = OutcomeCode(sim)
        /\ sim.gsmStatus = OutcomeCode(sim)
        /\ sim.gsmIdle = SIM7000_IDLE
        /\ ~sim.inReceive

\* the modem has answered a command with an error report
C11_Witness ==
    /\ sim.trace = "Error answer"
    /\ sim.restartNeeded
    /\ sim.restartReason = SIM7000_CM_ERROR
    /\ sim.gsmIdle = SIM7000_IDLE
    /\ ~sim.inReceive

(***************************************************************************)
(* Properties of the line buffer                                           *)
(***************************************************************************)
\* the call of doLoop that has just returned found the line too long
TooLongReported == sim.trace = "Answer too long"

\* C12: when the line buffer overflows, the restart-needed flag is set with
\* the reason TooLong and the pending command, if any, is no longer
\* outstanding.
C12_TooLongLatchesRestart ==
    TooLongReported =>
        /\ sim.restartNeeded
        /\ sim.restartReason = SIM7000_TOO_LONG
        /\ ~sim.inReceive

\* a call of doLoop reads bytes while the buffer holds MAX_ANSWER - 2
\* characters and one of the bytes is neither NUL nor CR
ReadsPastBound ==
    /\ Len(sim.lastAnswer) = MAX_ANSWER - 2
    /\ Len(sim'.rx) < Len(sim.rx)
    /\ \E i \in 1..Len(sim.rx) : SubSeq(sim.rx, i, i) # "\r"

C14_BufferWithinBound == Len(sim.lastAnswer) <= MAX_ANSWER - 2

\* the buffer is full: MAX_ANSWER - 2 characters
C14_Witness == Len(sim.lastAnswer) = MAX_ANSWER - 2

(***************************************************************************)
(* Properties of the reception of messages                                 *)
(***************************************************************************)
\* a call of doLoop has handed a payload line to readSmsMessage
PayloadStep == sim'.trace = "Message"

\* the payload line of that call: what was buffered and the bytes read up
\* to the line end
PayloadLine == sim.lastAnswer \o SubSeq(sim.rx, 1, strpos(sim.rx, "\r") - 1)

\* the records of the last message received
LastReceived(s) == <<s.lastReceivedNumber, s.lastReceivedDate, s.lastReceivedMessage>>

C15_OneDeletePerNotice ==
    /\ [](sim.deletes <= sim.notices)
    /\ []((sim.deletes < sim.notices /\ noise < MaxLines) =>
             <>(sim.deletes = sim.notices))

(***************************************************************************)
(* Properties of the driver's view: callbacks and state queries            *)
(***************************************************************************)
\* the modem has confirmed the only or the last chunk of a message and the
\* send is over, with no failure on the way
SentConfirmed ==
    /\ sends > 0
    /\ ~sim.restartNeeded
    /\ sim.trace = "Reply"
    /\ sim.txLast = CTRL_Z
    /\ sim.payloads = (IF sim.smsMsgCount = 0 THEN 1 ELSE sim.smsMsgCount)
    /\ isIdle(sim)

\* C17: once the only or the last chunk of a message is confirmed, the
\* callback registered with registerSendCb is called.
C17_SendCallbackInvoked ==
    [](SentConfirmed /\ sim.sendSmsCb => <>(sim.sendCbCalls > 0))

\* C18: isReceiving() is true from the receive notice until the payload
\* line has been taken, and false otherwise.
C18_IsReceivingDuringReception ==
    isReceiving(sim) <=> sim.nextLineIsSmsMessage

\* C19: whenever isIdle() is true no command is outstanding: no init step,
\* no chunk of a message, no wait for a payload line and no delete command
\* awaits its answer.
C19_IdleMeansNothingOutstanding ==
    isIdle(sim) => ~sim.inReceive

\* the commands of the init table
InitCommands == { initSteps[i].command : i \in 1..STEP_SIZE } \ { "" }

\* the step is a call of begin() or of setRestart(false) by the driver
DriverRestarts == begins' # begins \/ sim' = setRestart(sim, FALSE)

\* the step starts the power sequence, opens the port or writes a command
\* of the init table
EngineRestarts ==
    \/ sim'.inPower # sim.inPower
    \/ sim'.powerStep # sim.powerStep
    \/ /\ <<sim'.txLast, sim'.txRepeat>> # <<sim.txLast, sim.txRepeat>>
       /\ sim'.txLast \in InitCommands

\* C20: once restartNeeded is set it stays set, and the engine neither runs
\* the power sequence, nor opens the port, nor writes a command of the init
\* table, until the driver calls begin() or setRestart(false).
C20_RestartIsAdvisory ==
    [][ (sim.restartNeeded /\ ~DriverRestarts) =>
            (sim'.restartNeeded /\ ~EngineRestarts) ]_vars


(***************************************************************************)
(* The power sequence: begin() with a power pin, the polls that walk the   *)
(* pin through the table, and a modem that may talk while it is cycled     *)
(***************************************************************************)
MaxPowerBegins == 2

\* the driver calls begin() at start-up and again when a restart is needed,
\* with or without a power pin; millis() may read 0 during the call
PowerBegin ==
    /\ begins < MaxPowerBegins
    /\ begins = 0 \/ sim.restartNeeded
    /\ \E powerPin \in {-1, 4}, zero \in BOOLEAN :
         sim' = [Modem(begin([sim EXCEPT !.clockZero = zero], powerPin))
                   EXCEPT !.clockZero = FALSE]
    /\ begins' = begins + 1
    /\ late' = 0
    /\ UNCHANGED <<sends, noise>>

\* the driver's main loop calls doLoop(); millis() may read 0 during a call
\* made while the pin is cycled
PowerPoll ==
    /\ sim.firstInitDone
    /\ \E codecOk \in {TRUE}, zero \in BOOLEAN :
         /\ zero => sim.inPower
         /\ sim' = [Modem(doLoop([sim EXCEPT !.clockZero = zero], codecOk))
                      EXCEPT !.clockZero = FALSE]
    /\ UNCHANGED <<sends, begins, noise, late>>

\* the modem puts a line on a port that is open, also while it is cycled
ModemBoot ==
    /\ sim.opens > 0
    /\ sim.rx = ""
    /\ noise < MaxNoise
    /\ \E line \in {"RDY\r\n"} : sim' = [sim EXCEPT !.rx = line]
    /\ noise' = noise + 1
    /\ UNCHANGED <<sends, begins, late>>

NextPower ==
    \/ PowerBegin
    \/ PowerPoll
    \/ Tick
    \/ ModemReply
    \/ ModemBoot

SpecPower == Init /\ [][NextPower]_vars /\ WF_vars(PowerPoll) /\ WF_vars(Tick)

\* begin() with a power pin has run and the pin was not released since
Powering(s) == s.pinMode = "OUTPUT"

\* the level the table gives a step: active on the even steps
StepLevel(step) == IF step % 2 = 0 THEN "HIGH" ELSE "LOW"

\* a step of the program made while the pin is walked through the table
PowerStepOk ==
    /\ sim'.powerStep \in {sim.powerStep, sim.powerStep + 1}
    /\ sim'.powerStep # sim.powerStep =>
          sim.powerElapsed >= PowerTable[sim.powerStep + 1]
    /\ sim'.pinLevel = StepLevel(sim'.powerStep)
    /\ IF sim'.powerStep = Len(PowerTable) - 1
       THEN /\ sim'.pinMode = "OUTPUT_OPEN_DRAIN"
            /\ sim'.opens = sim.opens + 1
            /\ sim'.txLast = initSteps[1].command
       ELSE /\ Powering(sim')
            /\ sim'.opens = sim.opens
            /\ sim'.txLast = sim.txLast
            /\ sim'.txRepeat = sim.txRepeat
            /\ sim'.gsmStatus = sim.gsmStatus
            /\ sim'.stepRepeatCount = sim.stepRepeatCount
    /\ ~sim'.bytesRead
    /\ sim'.restartNeeded = sim.restartNeeded

\* C21: with a power pin configured, begin() followed by polls walks the pin
\* through the table steps in index order, active then inactive, each step
\* left only when its dwell of the table has elapsed; at the zero-duration
\* sentinel the pin is released and the transport is opened exactly once,
\* and until then no byte is read, no deadline acts and no command is written
C21_PowerSequence ==
    /\ [][(Powering(sim) /\ begins' = begins /\ sim' # sim) => PowerStepOk]_vars
    /\ (Powering(sim) ~> ~Powering(sim))


ReplyReceived(s) ==
    LET waitFor == initSteps[s.stepPtr + 1].waitFor
        text == "\n" \o s.lastAnswer \o s.rx
    IN  IF waitFor = ""
        THEN strstr(text, "\nOK\r\n")
        ELSE strstr(text, waitFor) /\ strstr(s.rx, "\n")

\* what a step of the program may do to the init sequence once the port is
\* open: write the command of the current step again, or, a reply to the
\* current step being received, go to the next step and write its command
\* (the SCA routine runs in place of a command, and goes on to the end of the
\* table when it accepts the number)
InitStepOk ==
    /\ sim'.stepPtr # sim.stepPtr =>
          /\ ReplyReceived(sim)
          /\ \/ sim'.stepPtr = sim.stepPtr + 1
             \/ sim.stepPtr = STEP_SIZE - 2 /\ sim'.stepPtr = STEP_SIZE
    /\ (/\ <<sim'.txLast, sim'.txRepeat>> # <<sim.txLast, sim.txRepeat>>
        /\ sim'.txLast \in InitCommands) =>
          sim'.txLast = initSteps[sim'.stepPtr + 1].command

\* the claim as first stated: whatever the driver has set ignoreErrors to
C23_InitInTableOrderAnyMode ==
    [][(sim.opens > 0 /\ sim'.opens = sim.opens /\ sim.stepPtr < STEP_SIZE - 1)
          => InitStepOk]_vars

\* C23: once the port is open, and ignoreErrors being false, the init
\* commands are written in table order, each one only after a line with the
\* reply the step before it waits for was received; no step is skipped or
\* reordered, and gotSca runs only after the line with "+CSCA:" that answers
\* the query before it
C23_InitInTableOrder ==
    [][(sim.opens > 0 /\ sim'.opens = sim.opens /\ sim.stepPtr < STEP_SIZE - 1
        /\ ~sim.ignoreErrors) => InitStepOk]_vars

\* the whole table was gone through, the SCA routine included, with
\* ignoreErrors false
C23_Witness ==
    /\ ~sim.ignoreErrors
    /\ sim.stepPtr = STEP_SIZE
    /\ sim.restartCount = 1
    /\ isIdle(sim)


\* the step moves stepPtr to a place past the last entry of the init table
PastLastStep == sim'.stepPtr # sim.stepPtr /\ sim'.stepPtr >= STEP_SIZE

\* C24: when the init index moves past the last table entry, a last command
\* status that is an error sets restartNeeded with that status as the reason
\* and does not set the mode to Idle; otherwise the mode becomes Idle and
\* restartCount increases by exactly one; restartCount increases at no other
\* step, and at most once per begin()
C24_InitCompleteOutcome ==
    /\ [][PastLastStep =>
            IF sim'.gsmStatus # SIM7000_OK
            THEN /\ sim'.restartNeeded
                 /\ sim'.restartReason = sim'.gsmStatus
                 /\ sim'.gsmIdle = sim.gsmIdle
                 /\ sim'.gsmIdle # SIM7000_IDLE
                 /\ sim'.restartCount = sim.restartCount
            ELSE /\ isIdle(sim')
                 /\ sim'.restartCount = sim.restartCount + 1]_vars
    /\ [][sim'.restartCount # sim.restartCount => PastLastStep]_vars
    /\ [](sim.restartCount <= begins)


\* the step is a call in which smsPdu.encodePDU returned a negative code
ChunkRejected == sim'.pduCalls # sim.pduCalls /\ ~sim'.pduAccepted

\* C25: when the codec rejects a chunk, the first or a later one, nothing is
\* written to the port for it, it is not handed to the codec again,
\* restartNeeded is not set, in that call or at a later deadline of that
\* send, and the session is Idle with no command outstanding
C25_RejectedChunkDropped ==
    /\ [][ChunkRejected =>
            /\ <<sim'.txLast, sim'.txRepeat, sim'.payloads>>
                   = <<sim.txLast, sim.txRepeat, sim.payloads>>
            /\ sim'.restartNeeded = sim.restartNeeded
            /\ isIdle(sim')
            /\ ~sim'.inReceive]_vars
    /\ [][(~sim.pduAccepted /\ sends' = sends) =>
            /\ sim'.pduCalls = sim.pduCalls
            /\ sim'.restartNeeded = sim.restartNeeded]_vars


(***************************************************************************)
(* The lines of the modem, from the registration query of the init table   *)
(* on: replies, registration reports, notices, prompts, look-alikes        *)
(***************************************************************************)
MaxSaid == 2

\* the modem goes through the init table, answering every command at once,
\* up to the command of the given step
RECURSIVE RunInitTo(_, _)
RunInitTo(s, step) ==
    IF s.inReceive /\ s.stepPtr < step
    THEN RunInitTo(doLoop([s EXCEPT !.rx = ReplyTo(Head(s.owed)), !.owed = Tail(@)], TRUE),
                   step)
    ELSE s

\* the session after begin() without a power pin, "AT+CREG?" just written
Querying == RunInitTo(begin(Constructed, -1), 10)

\* the driver registers its line callback before the modem says anything
RegisterLineCb ==
    /\ ~sim.recvLineCb
    /\ sends = 0 /\ noise = 0
    /\ sim' = registerLineCb(sim)
    /\ UNCHANGED <<sends, begins, noise, late>>

\* what the modem says of its own: registration reports, pushed or in reply
\* to the query, a receive notice, a prompt, a confirmation with and without
\* its line end, and lines that hold "OK" without being it
SaidLines ==
    { "+CREG: 1\r\n", "+CREG: 2,1\r\n", "+CREG: 2,5\r\n", "+CREG: 0\r\n",
      "+CMT: ,24\r\n", ">", "+CMGS: 7\r\n", "+CMGS: 7", "OKAY\r\n", "OK\r\n" }

ModemSays ==
    /\ sim.rx = ""
    /\ noise < MaxSaid
    /\ \E line \in SaidLines : sim' = [sim EXCEPT !.rx = line]
    /\ noise' = noise + 1
    /\ UNCHANGED <<sends, begins, late>>

InitLines == sim = Querying /\ sends = 0 /\ begins = 1 /\ noise = 0 /\ late = 0

NextLines ==
    \/ RegisterLineCb
    \/ SendShort
    \/ DoLoop
    \/ Tick
    \/ ModemReply
    \/ ModemSays

SpecLines == InitLines /\ [][NextLines]_vars


\* the first line among the unread bytes, without its line end, when doLoop
\* has nothing buffered yet
FirstLine(s) ==
    IF s.lastAnswer = "" /\ strstr(s.rx, "\r\n")
    THEN SubSeq(s.rx, 1, strpos(s.rx, "\r\n") - 1)
    ELSE ""

\* the step is a poll that completes a line holding the registration prefix
CregLineDone ==
    /\ strstr(FirstLine(sim), CREG_MSG)
    /\ ~sim.inPower
    /\ Len(sim'.rx) < Len(sim.rx)

\* the status digit of a registration line: the character right after the
\* prefix, or the one two places further when the line answers the query
StatusDigit(line, queried) ==
    LET after == strpos(line, CREG_MSG) + Len(CREG_MSG)
        at == IF queried THEN after + 2 ELSE after
    IN  IF at <= Len(line) THEN SubSeq(line, at, at) ELSE ""

\* C26: after a line with "+CREG: " is completed, smsReady tells whether the
\* status digit is '1' or '5', the status digit being the character right
\* after the prefix for a report the modem pushes, and the character two
\* places further when the last command written was the query "AT+CREG?"
C26_ReadyFollowsStatusDigit ==
    [][CregLineDone =>
          sim'.smsReady =
              (StatusDigit(FirstLine(sim), sim.txLast = "AT+CREG?") \in {"1", "5"})]_vars


\* C27: a completed registration line is consumed without further routing:
\* it does not resolve the pending command, raises no device error, is taken
\* neither as the payload of a message nor as a receive notice, and is not
\* handed to the line callback; the pending command, the awaited-payload
\* flag, the mode and the restart flag are left as they were
C27_CregLineOnlySetsReady ==
    [][CregLineDone =>
          /\ <<sim'.inReceive, sim'.expectedAnswer, sim'.nextStepCb, sim'.gsmTimeout,
               sim'.elapsed, sim'.lastCommand, sim'.gsmStatus>>
                 = <<sim.inReceive, sim.expectedAnswer, sim.nextStepCb, sim.gsmTimeout,
                     sim.elapsed, sim.lastCommand, sim.gsmStatus>>
          /\ <<sim'.txLast, sim'.txRepeat, sim'.stepPtr, sim'.stepRepeatCount>>
                 = <<sim.txLast, sim.txRepeat, sim.stepPtr, sim.stepRepeatCount>>
          /\ <<sim'.restartNeeded, sim'.restartReason, sim'.gsmIdle>>
                 = <<sim.restartNeeded, sim.restartReason, sim.gsmIdle>>
          /\ <<sim'.nextLineIsSmsMessage, sim'.notices, sim'.deletes,
               sim'.smsForwardedCount, sim'.readCbCalls>>
                 = <<sim.nextLineIsSmsMessage, sim.notices, sim.deletes,
                     sim.smsForwardedCount, sim.readCbCalls>>
          /\ sim'.lineCbCalls = sim.lineCbCalls
          /\ sim'.sendCbCalls = sim.sendCbCalls]_vars

\* a registration line was consumed with the line callback registered, a
\* payload line awaited and the deadline of the wait passed
C27_Witness ==
    /\ sim.trace = "Got CREG"
    /\ sim.recvLineCb
    /\ sim.nextLineIsSmsMessage
    /\ sim.inReceive
    /\ sim.elapsed >= sim.gsmTimeout
    /\ ~sim.restartNeeded


\* the step is a poll that completes a line other than a registration line
\* while a command is outstanding
ReplyLineDone ==
    /\ FirstLine(sim) # ""
    /\ ~strstr(FirstLine(sim), CREG_MSG)
    /\ sim.inReceive
    /\ ~sim.inPower
    /\ Len(sim'.rx) < Len(sim.rx)

\* C28: a completed line resolves the outstanding command as success exactly
\* when the expected pattern is the sentinel "OK" and the line is "OK", or
\* the expected pattern is another one and occurs in the line; a line that
\* only holds "OK" does not resolve a command that expects the sentinel
C28_LineResolvesOnMatch ==
    [][ReplyLineDone =>
          ((sim'.trace = "Reply") <=>
              IF sim.expectedAnswer = "OK"
              THEN FirstLine(sim) = "OK"
              ELSE strstr(FirstLine(sim), sim.expectedAnswer))]_vars

\* the line "OK" has resolved the registration query: the next init command
\* is written
C28_Witness ==
    /\ sim.trace = "Reply"
    /\ sim.lastAnswer = ""
    /\ sim.txLast = "AT+CLTS=1"
    /\ sim.stepPtr = 11


\* the step is a poll that reads bytes with no line end among them while a
\* command is outstanding
BytesOnly ==
    /\ sim.inReceive
    /\ ~sim.inPower
    /\ sim.rx # ""
    /\ ~strstr(sim.rx, "\n")
    /\ Len(sim'.rx) < Len(sim.rx)

\* C29: when the expected pattern is one character, a byte equal to it
\* resolves the command as soon as it is appended, its continuation being
\* invoked, with no LF read; when the expected pattern is longer, no byte
\* resolves a command before an LF completes the line
C29_SingleCharResolvesAtOnce ==
    [][BytesOnly =>
          /\ (sim'.trace = "Reply") <=>
                (Len(sim.expectedAnswer) = 1 /\ strstr(sim.rx, sim.expectedAnswer))
          /\ (sim'.trace = "Reply" /\ sim.nextStepCb = "sendSMStext") =>
                /\ sim'.payloads = sim.payloads + 1
                /\ sim'.txLast = CTRL_Z
                /\ sim'.expectedAnswer = "+CMGS:"]_vars

\* the prompt has resolved the AT+CMGS command: the PDU is written
C29_Witness ==
    /\ sim.trace = "Reply"
    /\ sim.payloads = 1
    /\ sim.txLast = CTRL_Z
    /\ sim.inReceive


\* the step is a poll in which doLoop calls the continuation it holds: on a
\* reply, or at a deadline when errors are ignored
ContinuationInvoked ==
    /\ Len(sim'.rx) < Len(sim.rx) \/ sim.elapsed >= sim.gsmTimeout
    /\ sim'.trace \in {"Reply", "Ignoring time out"}

\* C30: a continuation is invoked only to resolve the command it was
\* registered with: when no command is outstanding, the session having gone
\* idle on a success, a timeout or an error, no byte and no line received
\* invokes a continuation
C30_NoContinuationWithoutCommand ==
    [][(~sim.inReceive /\ ~sim.inPower) => ~ContinuationInvoked]_vars


\* the step is a poll that completes a receive notice while a command is
\* outstanding that the notice line does not resolve
NoticeWhileCommand ==
    /\ strstr(FirstLine(sim), SMS_INDICATOR)
    /\ ~strstr(FirstLine(sim), CREG_MSG)
    /\ sim.inReceive
    /\ ~sim.nextLineIsSmsMessage
    /\ ~sim.inPower
    /\ sim'.notices = sim.notices + 1

\* C31: a receive notice that arrives while a command is outstanding leaves
\* that command's deadline, start time, expected pattern and continuation
\* as they were
C31_NoticeKeepsPendingCommand ==
    [][NoticeWhileCommand =>
          <<sim'.gsmTimeout, sim'.elapsed, sim'.expectedAnswer, sim'.nextStepCb>>
              = <<sim.gsmTimeout, sim.elapsed, sim.expectedAnswer, sim.nextStepCb>>]_vars


\* C32: the driver calling sendSMS only while isIdle() is true, in every
\* state reached after begin() where isIdle() is true and needRestart() is
\* false the init sequence of that begin() has completed: stepPtr is past
\* the table and initComplete has counted the restart
C32_IdleMeansInitDone ==
    (sim.firstInitDone /\ isIdle(sim) /\ ~needRestart(sim)) =>
        (sim.stepPtr >= STEP_SIZE /\ sim.restartCount >= begins)


\* the step is a call of doLoop made when the deadline of the pending
\* command has passed
ExpiredPoll ==
    /\ sim.inReceive
    /\ ~sim.inPower
    /\ sim.elapsed >= sim.gsmTimeout
    /\ <<sends', begins', noise'>> = <<sends, begins, noise>>
    /\ ~(sim.rx = "" /\ sim'.rx # "")
    /\ sim' # sim

\* what doLoop traces when it acts on a deadline
TimeoutTraces == {"Ignoring time out", "Repeat", "Partial answer", "Timed out"}

\* the unread bytes end the poll before the deadline is looked at: a line is
\* completed, or a byte is the one-character expected answer
EndsPoll(s) ==
    \/ strstr(s.rx, "\n")
    \/ Len(s.expectedAnswer) = 1 /\ strstr(s.rx, s.expectedAnswer)

\* the first unread line answers the pending command
ReplyWaiting(s) ==
    /\ FirstLine(s) # ""
    /\ ~strstr(FirstLine(s), CREG_MSG)
    /\ IF s.expectedAnswer = "OK"
       THEN FirstLine(s) = "OK"
       ELSE strstr(FirstLine(s), s.expectedAnswer)

\* the claim as first stated: the deadline comes first, whatever is unread
C33_DeadlineBeforeBytes ==
    [][ExpiredPoll => sim'.trace \in TimeoutTraces]_vars

\* C33: in each poll the bytes received are processed first and the deadline
\* of the pending command is checked afterwards, when no completed line and
\* no one-character answer has ended the poll: a matching reply that waits
\* unread when the deadline has passed resolves the command as a success,
\* and the timeout outcome (ignore, retry, Timeout or BadAnswer) is applied
\* exactly when nothing unread ends the poll
C33_BytesBeforeDeadline ==
    [][ExpiredPoll =>
          /\ (sim'.trace \in TimeoutTraces) <=> ~EndsPoll(sim)
          /\ ReplyWaiting(sim) => sim'.trace = "Reply"]_vars

\* a reply read after the deadline of its command has ended the session's
\* last command: idle, no restart asked for
C33_Witness ==
    /\ sim.trace = "Reply"
    /\ sim.gsmTimeout > 0
    /\ sim.elapsed >= sim.gsmTimeout
    /\ isIdle(sim)
    /\ ~sim.restartNeeded


\* a poll that repeats the pending command: its deadline has passed, errors
\* are not ignored and repeats remain
RepeatPoll ==
    /\ ExpiredPoll
    /\ ~sim.ignoreErrors
    /\ sim.stepRepeatCount < sim.stepMaxRepeatcount
    /\ sim'.trace = "Repeat"

\* C34: a repeat writes again the command text that timed out, arms again
\* the same expected answer, timeout and continuation, and adds exactly one
\* to the repeat count, which never exceeds the repeat budget of the command.
C34_RepeatSameCommand ==
    /\ [][RepeatPoll =>
            /\ sim'.txLast = sim.txLast
            /\ sim'.txRepeat = sim.txRepeat + 1
            /\ sim'.expectedAnswer = sim.expectedAnswer
            /\ sim'.gsmTimeout = sim.gsmTimeout
            /\ sim'.nextStepCb = sim.nextStepCb
            /\ sim'.stepRepeatCount = sim.stepRepeatCount + 1]_vars
    /\ [](sim.stepRepeatCount <= sim.stepMaxRepeatcount)


(***************************************************************************)
(* Out of band commands: the driver calls sendAT() while the modem starts  *)
(***************************************************************************)
MaxCommands == 2

\* FF_Sim7000::sendAT
sendAT(s, command) ==
    [sendCommand([s EXCEPT !.atCommand = command],
                 command, "NULL", DEFAULT_ANSWER, SIM7000_CMD_TIMEOUT, 0)
       EXCEPT !.inReceive = FALSE]

\* the texts the driver gives to sendAT: none, the text of the first init
\* step, another text
AtCommands == { "", "AT", "ATI" }

\* the driver calls sendAT() once the port is open
SendAT ==
    /\ sim.firstInitDone
    /\ ~sim.inPower
    /\ sends < MaxCommands
    /\ \E command \in AtCommands : sim' = Modem(sendAT(sim, command))
    /\ sends' = sends + 1
    /\ UNCHANGED <<begins, noise, late>>

NextCommand ==
    \/ Begin
    \/ SendAT
    \/ DoLoop
    \/ Tick
    \/ ModemReply
    \/ ModemNoise

SpecCommand == Init /\ [][NextCommand]_vars

\* a call of sendAT, hence of sendCommand, with the text sim'.atCommand
SendATStep == sends' = sends + 1

\* C35: sendCommand sets the repeat count to zero exactly when its text
\* differs from the text written before it and keeps the count when the text
\* is the same; with an empty text it writes nothing and leaves the repeat
\* count and the recorded last command as they are.
C35_RepeatCountResetIffNewText ==
    [][SendATStep =>
         IF sim'.atCommand = ""
         THEN <<sim'.txLast, sim'.txRepeat, sim'.stepRepeatCount, sim'.lastCommand>>
                = <<sim.txLast, sim.txRepeat, sim.stepRepeatCount, sim.lastCommand>>
         ELSE /\ sim'.txLast = sim'.atCommand
              /\ sim'.lastCommand = sim'.atCommand
              /\ sim'.stepRepeatCount =
                   IF sim'.atCommand # sim.txLast THEN 0 ELSE sim.stepRepeatCount]_vars


\* the step writes a command of the init table
InitCommandWritten ==
    /\ <<sim'.txLast, sim'.txRepeat>> # <<sim.txLast, sim.txRepeat>>
    /\ sim'.txLast \in InitCommands

\* the pending command is armed as the table entry at stepPtr says
ArmedAsTable(s) ==
    LET step == initSteps[s.stepPtr + 1]
    IN  /\ s.stepPtr < STEP_SIZE
        /\ step.routine = ""
        /\ s.inReceive
        /\ s.lastCommand = step.command
        /\ s.expectedAnswer = IF step.waitFor = "" THEN "OK" ELSE step.waitFor
        /\ s.gsmTimeout = step.timeout
        /\ s.stepMaxRepeatcount = step.repeat
        /\ s.nextStepCb = "sendNextInitStep"

\* C36: each command of the init table is armed with the expected answer of
\* its entry ("OK" when the entry names none), the timeout and the repeat
\* count of its entry, for the entries that name an answer as for those that
\* use the default.
C36_InitStepArmedAsTable ==
    [][InitCommandWritten => (sim'.txLast = sim'.lastCommand /\ ArmedAsTable(sim'))]_vars

\* the entry that names its answer is armed
C36_Witness ==
    /\ sim.txLast = "AT+CSCA?"
    /\ ArmedAsTable(sim)
    /\ sim.expectedAnswer = CSCA_INDICATOR
    /\ sim.gsmTimeout = 10000
    /\ sim.elapsed = 0


\* a poll that reads, for a pending command and with errors ignored, a line
\* with an error marker of the modem
IgnoredErrorLine ==
    /\ sim.ignoreErrors
    /\ sim.inReceive
    /\ ~sim.inPower
    /\ ~sim.nextLineIsSmsMessage
    /\ strstr(FirstLine(sim), "+CME ERROR") \/ strstr(FirstLine(sim), "+CMS ERROR")
    /\ ~strstr(FirstLine(sim), sim.expectedAnswer)
    /\ sim'.rx = ""
    /\ <<sends', begins', noise'>> = <<sends, begins, noise>>

\* a poll that meets the passed deadline of the pending command with errors
\* ignored
IgnoredTimeout ==
    /\ ExpiredPoll
    /\ sim.ignoreErrors
    /\ ~sim.restartNeeded
    /\ sim'.trace = "Ignoring time out"

\* C37: with errors ignored, a line with an error marker neither resolves
\* the pending command nor sets restartNeeded; at the deadline the
\* continuation is called (Idle when there is none) as after a success: no
\* repeat, restartNeeded not set, and a status of the last command that the
\* steps after it read as a success.
C37_IgnoredErrorsActAsSuccess ==
    /\ [][IgnoredErrorLine =>
            /\ sim'.inReceive
            /\ sim'.restartNeeded = sim.restartNeeded
            /\ <<sim'.stepPtr, sim'.txLast, sim'.txRepeat, sim'.gsmStatus>>
                 = <<sim.stepPtr, sim.txLast, sim.txRepeat, sim.gsmStatus>>]_vars
    /\ [][IgnoredTimeout =>
            /\ sim'.stepRepeatCount = sim.stepRepeatCount
            /\ sim'.txLast # sim.txLast \/ sim'.txRepeat = sim.txRepeat
            /\ sim.nextStepCb = "NULL" => isIdle(sim')
            /\ ~sim'.restartNeeded
            /\ ~sim'.inReceive => sim'.gsmStatus = SIM7000_OK]_vars


(***************************************************************************)
(* The reply to "AT+CSCA?": the modem answers the query of the init table  *)
(* with a line that holds a number or not, and goes on speaking            *)
(***************************************************************************)
MaxScaLines == 2

\* the session after begin() without a power pin, "AT+CSCA?" just written
\* and not answered yet
AskingSca == [RunInitTo(begin(Constructed, -1), 12) EXCEPT !.owed = <<>>]

\* what the modem sends once asked: the number quoted, with and without its
\* '+', with a character that is no digit, with a '+' inside, empty, not
\* quoted, with a quote missing or doubled; the "OK" that ends its reply, an
\* error report, a registration report, a receive notice, another line
ScaLines ==
    { "+CSCA: \"+336\",145\r\n", "+CSCA: \"336\",145\r\n",
      "+CSCA: \"3a6\",145\r\n", "+CSCA: \"33+6\",145\r\n",
      "+CSCA: \"\",145\r\n", "+CSCA: 145\r\n",
      "+CSCA: \"+336\r\n", "+CSCA: \"\"336\",145\r\n",
      "OK\r\n", "+CME ERROR: 10\r\n", "+CREG: 1\r\n", "+CMT: ,24\r\n",
      "07913306\r\n" }

ModemSca ==
    /\ sim.rx = ""
    /\ noise < MaxScaLines
    /\ \E line \in ScaLines : sim' = [sim EXCEPT !.rx = line]
    /\ noise' = noise + 1
    /\ UNCHANGED <<sends, begins, late>>

InitSca == sim = AskingSca /\ sends = 0 /\ begins = 1 /\ noise = 0 /\ late = 0

NextSca ==
    \/ RegisterLineCb
    \/ DoLoop
    \/ Tick
    \/ ModemSca

SpecSca == InitSca /\ [][NextSca]_vars


\* the step is a poll that completes a line with the indicator while the
\* query of the SCA number is pending: gotSca runs
ScaReplyDone ==
    /\ sim.stepPtr = STEP_SIZE - 2
    /\ sim.inReceive
    /\ strstr(FirstLine(sim), CSCA_INDICATOR)
    /\ ~strstr(FirstLine(sim), CREG_MSG)
    /\ Len(sim'.rx) < Len(sim.rx)

\* the text between the first two '"' that follow the indicator, "" when
\* there are not two of them
QuotedNumber(line) ==
    LET rest == SubSeq(line, strpos(line, CSCA_INDICATOR), Len(line))
        q1 == strpos(rest, "\"")
        after == IF q1 = 0 THEN "" ELSE SubSeq(rest, q1 + 1, Len(rest))
        q2 == strpos(after, "\"")
    IN  IF q2 = 0 THEN "" ELSE SubSeq(after, 1, q2 - 1)

\* the line holds the indicator followed by a quoted number made of digits,
\* with an optional leading '+'
ScaWellFormed(line) ==
    /\ strstr(line, CSCA_INDICATOR)
    /\ QuotedNumber(line) # ""
    /\ ScaNumberOk(QuotedNumber(line))

\* C39: gotSca accepts the reply only if it holds "+CSCA:" followed by a
\* quoted number made of digits with an optional leading '+'; otherwise it
\* sets restartNeeded with reason BadAnswer, stores no number and leaves
\* stepPtr where it is, and the initialization does not complete: the mode
\* does not become Idle through initComplete and restartCount stays as it is.
C39_ScaReplyChecked ==
    /\ [][(ScaReplyDone /\ ~ScaWellFormed(FirstLine(sim))) =>
            /\ sim'.restartNeeded
            /\ sim'.restartReason = SIM7000_BAD_ANSWER
            /\ sim'.scaNumber = sim.scaNumber
            /\ sim'.stepPtr = STEP_SIZE - 1
            /\ sim'.gsmIdle = sim.gsmIdle
            /\ sim'.restartCount = sim.restartCount]_vars
    /\ [](sim.restartCount > 0 => ScaWellFormed("+CSCA: \"" \o sim.scaNumber \o "\""))


\* the step is a poll that completes a line that is not empty, the buffer
\* being empty before it
LinePollDone ==
    /\ FirstLine(sim) # ""
    /\ ~sim.inPower
    /\ Len(sim'.rx) < Len(sim.rx)

\* the line belongs to none of the classes doLoop knows: registration
\* report, reply that resolves the pending command, error report for it,
\* awaited payload of a message, receive indicator
Unclassified(s, line) ==
    /\ ~strstr(line, CREG_MSG)
    /\ ~(s.inReceive /\ IF s.expectedAnswer = DEFAULT_ANSWER
                        THEN line = DEFAULT_ANSWER
                        ELSE strstr(line, s.expectedAnswer))
    /\ ~(s.inReceive /\ ~s.ignoreErrors
         /\ (strstr(line, "+CMS ERROR") \/ strstr(line, "+CME ERROR")))
    /\ ~s.nextLineIsSmsMessage
    /\ ~strstr(line, SMS_INDICATOR)

\* C38: a completed line that is not empty is given to the registered line
\* callback, once, exactly when it belongs to none of the classes; a line of
\* a class is never given to it, and every completed line, classified or
\* forwarded, leaves the buffer empty.
C38_UnclassifiedLineForwardedOnce ==
    [][LinePollDone =>
         /\ sim'.lineCbCalls =
              IF sim.recvLineCb /\ Unclassified(sim, FirstLine(sim))
              THEN sim.lineCbCalls + 1
              ELSE sim.lineCbCalls
         /\ sim'.lastAnswer = ""]_vars


(***************************************************************************)
(* After a receive notice: the payload line comes, comes late, or another  *)
(* line comes in its place                                                 *)
(***************************************************************************)
MaxAfterLines == 3

\* the notice, the payload, a registration report, a line that is none of
\* them, a line cut short
AfterLines == { "+CMT: ,24\r\n", "07913306\r\n", "+CREG: 1\r\n", "RING\r\n", "+CM" }

ModemAfter ==
    /\ sim.rx = ""
    /\ noise < MaxAfterLines
    /\ \E line \in AfterLines : sim' = [sim EXCEPT !.rx = line]
    /\ noise' = noise + 1
    /\ UNCHANGED <<sends, begins, late>>

NextExpiry ==
    \/ SendShort
    \/ DoLoop
    \/ Tick
    \/ ModemReply
    \/ ModemAfter

SpecExpiry == InitSms /\ [][NextExpiry]_vars

\* a poll that meets the passed deadline of the wait for the payload line,
\* errors not being ignored and no line being completed by it
NoticeExpiry ==
    /\ ExpiredPoll
    /\ ~sim.ignoreErrors
    /\ sim.nextLineIsSmsMessage
    /\ sim.gsmTimeout = 2000
    /\ ~EndsPoll(sim)

\* what the expiry of the wait does, and how long the wait stays armed
ExpiryOutcome ==
    /\ [][NoticeExpiry =>
            /\ sim'.restartNeeded
            /\ sim'.restartReason = IF sim.lastAnswer \o sim.rx # ""
                                    THEN SIM7000_BAD_ANSWER ELSE SIM7000_TIMEOUT
            /\ isIdle(sim')
            /\ ~sim'.inReceive
            /\ <<sim'.deletes, sim'.txLast, sim'.txRepeat>>
                 = <<sim.deletes, sim.txLast, sim.txRepeat>>
            /\ sim'.nextLineIsSmsMessage]_vars
    /\ [][(sim.nextLineIsSmsMessage /\ ~sim'.nextLineIsSmsMessage) =>
            <<sim'.txLast, sim'.txRepeat>> # <<sim.txLast, sim.txRepeat>>]_vars

\* a poll that completes a line after the expiry, the wait still armed
LineAfterExpiry ==
    /\ LinePollDone
    /\ sim.nextLineIsSmsMessage
    /\ ~sim.inReceive

\* the line is read as the payload of a message
ReadAsPayload ==
    /\ sim'.trace = "Message"
    /\ sim'.deletes = sim.deletes + 1
    /\ ~sim'.nextLineIsSmsMessage

\* the claim as first stated: whatever the next line is
C40_NextLineIsPayload ==
    /\ ExpiryOutcome
    /\ [][LineAfterExpiry => ReadAsPayload]_vars

\* C40: when no line follows a receive notice within 2 s, errors not being
\* ignored, restartNeeded is set with reason Timeout (BadAnswer when part of
\* a line is buffered), the mode is Idle and no delete command is written;
\* the expiry does not end the wait for the payload, which stays armed until
\* the next command is sent: the next line that is not a registration report
\* is read as the payload of a message.
C40_PayloadWaitOutlivesExpiry ==
    /\ ExpiryOutcome
    /\ [][(LineAfterExpiry /\ ~strstr(FirstLine(sim), CREG_MSG)) => ReadAsPayload]_vars

\* the wait has expired and a later line was read as the payload
C40_Witness ==
    /\ sim.restartNeeded
    /\ sim.restartReason = SIM7000_TIMEOUT
    /\ sim.trace = "Message"
    /\ sim.notices = 1
    /\ sim.deletes = 1
    /\ sim.txLast = DELETE_COMMAND
    /\ sends = 0

=============================================================================
